---- MODULE Spec2Model ----
(***************************************************************************)
(* The dependency resolver of cutekit (src/cutekit/model.py): a registry   *)
(* of component manifests, one target, Resolver.resolve with its provider  *)
(* mapping and memoization cache, and Registry._loadDependencies, which    *)
(* resolves every component for the target and then applies the injects.   *)
(*                                                                         *)
(* Python objects that the code shares by reference (the Resolved records  *)
(* held by the cache and by Component.resolved) live in `heap` and are     *)
(* named by their index, so that two names of one object stay one object.  *)
(***************************************************************************)
EXTENDS Integers, Sequences, FiniteSets, TLC

\* Total number of manifest entries (requires, provides, injects, enableIf
\* keys, target props, target routes) of the workspace under analysis.
MaxFeatures == 3

\* Number of Resolver.resolve calls a test makes on one Resolver.
MaxCalls == 2

\* Component ids, in registry insertion order.
Ids == <<"a", "b", "c">>

IdSet == {Ids[i] : i \in 1..Len(Ids)}

\* Specs that requires / provides / injects / routing may name: the
\* component ids and one capability name that is no component id.
Specs == IdSet \cup {"s"}

\* Target property keys.
Keys == {"k", "j"}

\* Python scalars, as <<type, text>>; the text is what str() returns.
PyTrue == <<"bool", "True">>

PyFalse == <<"bool", "False">>

PyA == <<"str", "a">>

PyB == <<"str", "b">>

\* Values a target gives to a prop, and allowed-value lists of enableIf.
PropVals == {PyTrue, PyA}

AllowedLists == {<<PyFalse>>, <<PyA, PyB>>}

\* Optional[...]: None is <<>>, a value x is <<x>>.
None == <<>>

Some(x) == <<x>>

PyStr(v) == v[2]

RECURSIVE Join(_, _)
\* sep.join(strs)
Join(sep, strs) ==
    IF strs = <<>> THEN ""
    ELSE IF Len(strs) = 1 THEN strs[1]
    ELSE strs[1] \o sep \o Join(sep, Tail(strs))

\* f"{stack}" of a list of strings: ['a', 'b']
PyListRepr(l) == "[" \o Join(", ", [i \in 1..Len(l) |-> "'" \o l[i] \o "'"]) \o "]"

\* x in l, for a Python list
InList(x, l) == \E i \in 1..Len(l) : l[i] = x

RECURSIVE SelectSeqFn(_, _)
SelectSeqFn(s, keepAt) ==
    IF s = <<>> THEN <<>>
    ELSE LET rest == SelectSeqFn(Tail(s), [i \in 1..(Len(s) - 1) |-> keepAt[i + 1]])
         IN IF keepAt[1] THEN <<s[1]>> \o rest ELSE rest

\* utils.uniqPreserveOrder: drop every element that occurred earlier.
uniqPreserveOrder(l) ==
    SelectSeqFn(l, [i \in 1..Len(l) |-> ~\E j \in 1..(i - 1) : l[j] = l[i]])

VARIABLES
    reg,        \* Registry.manifests: the Component manifests, in insertion order
    props,      \* Target.props
    routing,    \* Target.routing
    pc,         \* where the program is: "config", "ready", "resolve", "inject",
                \* "done", "direct", "raised"
    idx,        \* index in reg of the component the load loop is at
    jdx,        \* index in its injects
    mappings,   \* Resolver._mappings (spec -> list of component ids), None until baked
    cache,      \* Resolver._cache (spec -> heap index of a Resolved)
    heap,       \* the Resolved objects, by creation order
    stack,      \* the list bound to resolve's default argument `stack`
    resolved,   \* Component.resolved[target.id], per component id (heap index)
    call,       \* the latest top-level Resolver.resolve call and what it did
    ncalls,     \* number of direct resolve calls made on the Resolver
    manifests,  \* Registry.manifests of a registry under construction: the
                \* manifests (id, type, path) in insertion order
    appended,   \* the latest Registry._append call and what it did
    workspace,  \* what extern fetching reads: the root project's externs, the
                \* packages pkg-config knows, the checkouts git leaves on disk
    fetched,    \* the outcome of the extern phase of Registry.load
    targetProps,\* scope.target.props of the builder, as (key, value) pairs in
                \* insertion order; strings are sequences of characters
    cdefs,      \* what _computeCdef returned, None before it ran
    enabledComps, \* the components Registry.iterEnabled yields for the
                \* target, in registry order
    cincs,      \* what _computeCinc returned, None before it ran
    files,      \* the files jexpr.include can read: path -> parsed content
    jexpr,      \* the expression handed to expandAsync, None before one is chosen
    expanded,   \* the outcome of expandAsync(jexpr), None before it ran
    mpc,        \* where main is: "idle" before the call, "running" inside
                \* cli.exec, "exited"
    cmdStack,   \* the Command.eval activations, outermost first
    inflight,   \* the exception that is propagating, None if none is
    errors,     \* the errors raised so far in the run
    mainResult, \* how main ended: <<"return", code>> or <<"raise", kind>>,
                \* None before
    argText,    \* the string handed to cli.parseValue, None before one is chosen
    parsed,     \* what cli.parseValue returned, None before it ran
    lists,      \* the list objects that Tool.args and Tool.files refer to, by
                \* creation order
    DEFAULT_TOOLS, \* model.DEFAULT_TOOLS, the process-wide table: name -> Tool
    targets,    \* Target.tools of every target, in registry order: name -> Tool
    declared,   \* the tool tables as the manifests declared them, by value
    tcomps,     \* per component: the targets it is enabled for, and
                \* Component.tools as (name, args) pairs in insertion order
    loadMixins, \* the mixins argument of _loadDependencies
    tpc,        \* where the load is: "config", "load", "done", "raised"
    tidx,       \* index of the target the loop is at
    bcomps,     \* the components of the registry the builder sees, each with
                \* its Resolved for the target
    requested,  \* the components argument of build: 0 for "all", else the
                \* index of a component
    ninja,      \* the file <builddir>/build.ninja: None when absent, else
                \* its content
    runner,     \* the ninja command line once the runner is spawned, None before
    bpc,        \* where build is: "idle", "open", "gen", "products", "run",
                \* "raised"
    bidx        \* index of the component the loop of builder.all is at

\* The state of the resolver and of Registry._loadDependencies
resolverVars == <<reg, props, routing, pc, idx, jdx, mappings, cache, heap, stack,
                  resolved, call, ncalls>>

\* The registry under construction
registryVars == <<manifests, appended>>

\* Extern fetching
externVars == <<workspace, fetched>>

\* The builder's variable cdefs
cdefVars == <<targetProps, cdefs>>

\* The builder's variable cincs
cincVars == <<enabledComps, cincs>>

\* The Jexpr evaluator
jexprVars == <<files, jexpr, expanded>>

\* The command line: main, cli.exec and Command.eval
mainVars == <<mpc, cmdStack, inflight, errors, mainResult>>

\* cli.parseValue
parseVars == <<argText, parsed>>

\* Tool composition in Registry._loadDependencies
toolVars == <<lists, DEFAULT_TOOLS, targets, declared, tcomps, loadMixins, tpc, tidx>>

\* builder.build of one target
buildVars == <<bcomps, requested, ninja, runner, bpc, bidx>>

\* What the resolver's operations leave alone
otherVars == <<registryVars, externVars, cdefVars, cincVars, jexprVars, mainVars, parseVars, toolVars, buildVars>>

vars == <<resolverVars, otherVars>>

----
\* Manifests

Component(id, requires, provides, enableIf, injects) ==
    [id |-> id, requires |-> requires, provides |-> provides,
     enableIf |-> enableIf, injects |-> injects]

\* Resolved(reason, required, injected)
Resolved(reason, required) ==
    [reason |-> reason, required |-> required, injected |-> <<>>]

ManifestSize(m) ==
    Len(m.requires) + Len(m.provides) + Len(m.enableIf) + Len(m.injects)

RECURSIVE SumSizes(_)
SumSizes(r) == IF r = <<>> THEN 0 ELSE ManifestSize(r[1]) + SumSizes(Tail(r))

Features == SumSizes(reg) + Cardinality(DOMAIN props) + Cardinality(DOMAIN routing)

\* Registry.lookup(name, Component): the index in reg, 0 for None
Lookup(r, name) ==
    IF \E i \in 1..Len(r) : r[i].id = name
    THEN CHOOSE i \in 1..Len(r) : r[i].id = name
    ELSE 0

\* Registry.lookup(name, Component, includeProvides=True)
LookupProvides(r, name) ==
    IF Lookup(r, name) # 0 THEN Lookup(r, name)
    ELSE IF \E i \in 1..Len(r) : InList(name, r[i].provides)
    THEN CHOOSE i \in 1..Len(r) :
            /\ InList(name, r[i].provides)
            /\ \A j \in 1..(i - 1) : ~InList(name, r[j].provides)
    ELSE 0

\* A dict with no key
EmptyMap == [x \in {} |-> 0]

----
\* Component.isEnabled

RECURSIVE IsEnabledFrom(_, _)
\* The loop of Component.isEnabled over enableIf.items(), from entry `en[1]` on:
\* <<enabled, reason>>
IsEnabledFrom(en, p) ==
    IF en = <<>> THEN <<TRUE, "">>
    ELSE LET k == en[1][1]
             v == en[1][2]
         IN IF k \notin DOMAIN p
            THEN <<FALSE, "Missing props '" \o k \o "' in target">>
            ELSE IF ~InList(p[k], v)
            THEN <<FALSE,
                   "Props missmatch for '" \o k \o "': Got '" \o PyStr(p[k])
                   \o "' but expected "
                   \o Join(", ", [i \in 1..Len(v) |-> "'" \o PyStr(v[i]) \o "'"])>>
            ELSE IsEnabledFrom(Tail(en), p)

isEnabled(c, p) == IsEnabledFrom(c.enableIf, p)

----
\* Resolver._bake

RECURSIVE ProvidersOf(_, _)
\* The list _bake builds under key p from the components' provides + [id]
ProvidersOf(r, p) ==
    IF r = <<>> THEN <<>>
    ELSE LET c == r[1]
             hits == SelectSeq(c.provides \o <<c.id>>, LAMBDA q : q = p)
         IN [i \in 1..Len(hits) |-> c.id] \o ProvidersOf(Tail(r), p)

ProvidedKeys(r) ==
    UNION {{r[i].id} \cup {r[i].provides[j] : j \in 1..Len(r[i].provides)} : i \in 1..Len(r)}

\* The routing override of _bake: the routed component alone, or no provider
RouteOverride(r, v) == IF Lookup(r, v) # 0 THEN <<v>> ELSE <<>>

Bake(r, rt) ==
    [p \in ProvidedKeys(r) \cup DOMAIN rt |->
        IF p \in DOMAIN rt THEN RouteOverride(r, rt[p]) ELSE ProvidersOf(r, p)]

----
\* Resolver._provider: <<Optional id, reason>>

\* _provider without the single-provider case of lines 697-700
Provider_NoSingleCase(m, r, p, spec) ==
    LET result == IF spec \in DOMAIN m THEN m[spec] ELSE <<>>
        filtered == SelectSeq(result, LAMBDA id : isEnabled(r[Lookup(r, id)], p)[1])
    IN IF filtered = <<>>
       THEN <<None, "No provider for '" \o spec \o "'">>
       ELSE IF Len(filtered) > 1
       THEN <<None, "Multiple providers for '" \o spec \o "': " \o Join(",", filtered)>>
       ELSE <<Some(filtered[1]), "">>

Provider(m, r, p, spec) ==
    LET result == IF spec \in DOMAIN m THEN m[spec] ELSE <<>>
        en(id) == isEnabled(r[Lookup(r, id)], p)
        filtered == SelectSeq(result, LAMBDA id : en(id)[1])
    IN IF Len(result) = 1 /\ ~en(result[1])[1]
       THEN <<None, en(result[1])[2]>>
       ELSE IF filtered = <<>>
       THEN <<None, "No provider for '" \o spec \o "'">>
       ELSE IF Len(filtered) > 1
       THEN <<None, "Multiple providers for '" \o spec \o "': " \o Join(",", filtered)>>
       ELSE <<Some(filtered[1]), "">>

----
\* Resolver.resolve

\* What a call leaves behind: the cache, the heap, the default-argument
\* stack, the object returned (0 when it raised) and the exception raised.
\* `trace` logs line 759: <<keep, req, object returned by resolve(req)>>, for
\* every requirement the call resolved, at every depth, in execution order.
Ret(st, ref) ==
    [cache |-> st.cache, heap |-> st.heap, stack |-> st.stack, trace |-> st.trace,
     ret |-> ref, raised |-> None]

Raise(st, msg) ==
    [cache |-> st.cache, heap |-> st.heap, stack |-> st.stack, trace |-> st.trace,
     ret |-> 0, raised |-> Some(msg)]

\* self._cache[key] = Resolved(...); return self._cache[key]
CacheNew(st, key, obj) ==
    LET h == Append(st.heap, obj)
    IN Ret([st EXCEPT !.heap = h, !.cache = (key :> Len(h)) @@ st.cache], Len(h))

\* stack.pop()
Pop(s) == SubSeq(s, 1, Len(s) - 1)

\* The required list without the removal of duplicates
FinishRequired_KeepDuplicates(keep, result) == <<keep>> \o result

\* Lines 768-770: result.insert(0, keep); uniqPreserveOrder(result)
FinishRequired(keep, result) == uniqPreserveOrder(<<keep>> \o result)

LoopMessage(what, stk, keep) ==
    "Dependency loop while resolving '" \o what \o "': " \o PyListRepr(stk) \o " -> " \o keep

\* A requirement's reason is never looked at
HasReason_Never(res) == FALSE

\* Line 760: "if reqResolved.reason:" (None and "" are falsy)
HasReason(res) == res.reason # None /\ res.reason # Some("")

RECURSIVE Resolve(_, _, _)
RECURSIVE ResolveRequires(_, _, _, _, _)

\* ctx: [reg, mappings, props]; st: [cache, heap, stack, trace]
Resolve(ctx, what, st) ==
    IF what \in DOMAIN st.cache THEN Ret(st, st.cache[what])
    ELSE LET pr == Provider(ctx.mappings, ctx.reg, ctx.props, what)
         IN IF pr[1] = None
            THEN CacheNew(st, what, Resolved(Some(pr[2]), <<>>))
            ELSE LET keep == pr[1][1]
                 IN IF keep \in DOMAIN st.cache THEN Ret(st, st.cache[keep])
                    ELSE IF InList(keep, st.stack)
                    THEN Raise(st, LoopMessage(what, st.stack, keep))
                    ELSE LET pushed == [st EXCEPT !.stack = Append(@, keep)]
                             ci == Lookup(ctx.reg, keep)
                         IN IF ci = 0
                            THEN LET h == Append(pushed.heap,
                                            Resolved(Some("No provider for '" \o keep \o "'"), <<>>))
                                 IN Ret([pushed EXCEPT !.heap = h], Len(h))
                            ELSE ResolveRequires(ctx, keep, ctx.reg[ci].requires, <<>>, pushed)

\* The loop of resolve over component.requires, from requirement reqs[1] on
ResolveRequires(ctx, keep, reqs, result, st) ==
    IF reqs = <<>>
    THEN CacheNew([st EXCEPT !.stack = Pop(@)], keep,
                  Resolved(None, FinishRequired(keep, result)))
    ELSE LET r == Resolve(ctx, reqs[1], st)
             after == [cache |-> r.cache, heap |-> r.heap, stack |-> r.stack,
                       trace |-> Append(r.trace, <<keep, reqs[1], r.ret>>)]
         IN IF r.raised # None THEN r
            ELSE LET reqResolved == r.heap[r.ret]
                 IN IF HasReason(reqResolved)
                    THEN CacheNew([after EXCEPT !.stack = Pop(@)], keep,
                                  Resolved(reqResolved.reason, <<>>))
                    ELSE ResolveRequires(ctx, keep, Tail(reqs),
                                         result \o reqResolved.required, after)

----
\* The inputs: manifests and targets of at most MaxFeatures entries in all

SeqsUpTo(S, n) == UNION {[1..k -> S] : k \in 0..n}

\* enableIf dicts of at most n keys, in insertion order
EnableIfs(n) ==
    {e \in SeqsUpTo(Keys \X AllowedLists, n) :
        \A i, j \in 1..Len(e) : i # j => e[i][1] # e[j][1]}

MapsUpTo(K, V, n) ==
    UNION {[D -> V] : D \in {E \in SUBSET K : Cardinality(E) <= n}}

Budget == MaxFeatures - Features

\* No resolve call yet. Of a call: `hit` says that line 733 returned the cached
\* entry of `what`; otherwise keep and reason are what _provider(what) returned
\* at line 735, hitKeep says that line 743 returned the cached entry of keep,
\* and trace is the log of the requirements the call resolved.
NoCall ==
    [what |-> "", hit |-> FALSE, keep |-> None, reason |-> "", hitKeep |-> FALSE,
     ret |-> 0, raised |-> None, trace |-> <<>>]

\* No _append call yet
NoAppend == [m |-> [id |-> "", type |-> "", path |-> ""], raised |-> None, before |-> <<>>]

\* No workspace chosen, no load run
NoWorkspace == [extern |-> <<>>, pkgs |-> {}, checkout |-> EmptyMap, nested |-> <<>>]

NotFetched == [done |-> FALSE, raised |-> None, manifests |-> <<>>]

Init ==
    /\ reg = <<>>
    /\ props = EmptyMap
    /\ routing = EmptyMap
    /\ pc = "config"
    /\ idx = 0
    /\ jdx = 0
    /\ mappings = None
    /\ cache = EmptyMap
    /\ heap = <<>>
    /\ stack = <<>>
    /\ resolved = EmptyMap
    /\ call = NoCall
    /\ ncalls = 0
    /\ manifests = <<>>
    /\ appended = NoAppend
    /\ workspace = NoWorkspace
    /\ fetched = NotFetched
    /\ targetProps = <<>>
    /\ cdefs = None
    /\ enabledComps = <<>>
    /\ cincs = None
    /\ files = EmptyMap
    /\ jexpr = None
    /\ expanded = None
    /\ mpc = "idle"
    /\ cmdStack = <<>>
    /\ inflight = None
    /\ errors = {}
    /\ mainResult = None
    /\ argText = None
    /\ parsed = None
    /\ lists = <<<<>>, <<>>>>
    /\ DEFAULT_TOOLS = ("cp" :> [cmd |-> "cp", args |-> 1, files |-> 2, rule |-> None])
    /\ targets = <<>>
    /\ declared = <<>>
    /\ tcomps = <<>>
    /\ loadMixins = <<>>
    /\ tpc = "config"
    /\ tidx = 0
    /\ bcomps = <<>>
    /\ requested = None
    /\ ninja = None
    /\ runner = None
    /\ bpc = "idle"
    /\ bidx = 0

\* Registry._append(Component(...)) of the next component, its injects drawn
\* from sequences over injectSpecs
AppendWith(injectSpecs) ==
    /\ UNCHANGED otherVars
    /\ pc = "config"
    /\ Len(reg) < Len(Ids)
    /\ \E req \in SeqsUpTo(Specs, Budget) :
       \E prov \in SeqsUpTo(Specs, Budget - Len(req)) :
       \E en \in EnableIfs(Budget - Len(req) - Len(prov)) :
       \E inj \in SeqsUpTo(injectSpecs, Budget - Len(req) - Len(prov) - Len(en)) :
          reg' = Append(reg, Component(Ids[Len(reg) + 1], req, prov, en, inj))
    /\ UNCHANGED <<props, routing, pc, idx, jdx, mappings, cache, heap, stack,
                   resolved, call, ncalls>>

AppendComponent == AppendWith(Specs)

\* A component of a resolver test: Resolver.resolve reads no injects
AppendPlain == AppendWith({})

\* Target("host", props=..., routing=...)
NewTarget ==
    /\ UNCHANGED otherVars
    /\ pc = "config"
    /\ \E p \in MapsUpTo(Keys, PropVals, Budget) :
       \E rt \in MapsUpTo(Specs, Specs, Budget - Cardinality(DOMAIN p)) :
          /\ props' = p
          /\ routing' = rt
    /\ pc' = "ready"
    /\ UNCHANGED <<reg, idx, jdx, mappings, cache, heap, stack, resolved, call, ncalls>>

----
\* Registry._loadDependencies, for the one target

\* The position (component index, inject index) of the next inject the
\* "Apply injects" loops reach from (i, j) on; <<0, 0>> when the loops end
RECURSIVE NextInject(_, _, _, _, _)
NextInject(r, res, h, i, j) ==
    IF i > Len(r) THEN <<0, 0>>
    ELSE IF h[res[r[i].id]].reason = None /\ j <= Len(r[i].injects) THEN <<i, j>>
    ELSE NextInject(r, res, h, i + 1, 1)

\* Lines 971-975: target.props |= props; resolver = Resolver(r, target)
LoadBegin ==
    /\ UNCHANGED otherVars
    /\ pc = "ready"
    /\ \E o \in MapsUpTo(Keys, PropVals, Budget) :
          /\ props' = o @@ props
          /\ Cardinality(DOMAIN props') - Cardinality(DOMAIN props) <= Budget
    /\ mappings' = None
    /\ cache' = EmptyMap
    /\ idx' = 1
    /\ pc' = IF reg = <<>> THEN "done" ELSE "resolve"
    /\ UNCHANGED <<reg, routing, jdx, heap, stack, resolved, call, ncalls>>

\* One top-level resolver.resolve(what): the new values of the Resolver's state
\* and the record of the call
DoResolve(what) ==
    LET m == IF mappings = None THEN Bake(reg, routing) ELSE mappings
        r == Resolve([reg |-> reg, mappings |-> m, props |-> props], what,
                     [cache |-> cache, heap |-> heap, stack |-> stack, trace |-> <<>>])
        hit == what \in DOMAIN cache
        pr == Provider(m, reg, props, what)
    IN /\ mappings' = m
       /\ cache' = r.cache
       /\ heap' = r.heap
       /\ stack' = r.stack
       /\ call' = [what |-> what, hit |-> hit,
                   keep |-> IF hit THEN None ELSE pr[1],
                   reason |-> IF hit THEN "" ELSE pr[2],
                   hitKeep |-> ~hit /\ pr[1] # None /\ pr[1][1] \in DOMAIN cache,
                   ret |-> r.ret, raised |-> r.raised, trace |-> r.trace]

\* Lines 976-980: one iteration of "for c in r.iter(Component)"
LoadResolve ==
    /\ UNCHANGED otherVars
    /\ pc = "resolve"
    /\ DoResolve(reg[idx].id)
    /\ IF call'.raised # None
       THEN /\ pc' = "raised"
            /\ UNCHANGED <<idx, jdx, resolved>>
       ELSE /\ resolved' = (reg[idx].id :> call'.ret) @@ resolved
            /\ IF idx < Len(reg)
               THEN /\ idx' = idx + 1
                    /\ pc' = "resolve"
                    /\ UNCHANGED jdx
               ELSE LET nxt == NextInject(reg, resolved', heap', 1, 1)
                    IN /\ idx' = nxt[1]
                       /\ jdx' = nxt[2]
                       /\ pc' = IF nxt[1] = 0 THEN "done" ELSE "inject"
    /\ UNCHANGED <<reg, props, routing, ncalls>>

\* The inject step with the victim's own list placed first
ApplyInject_VictimFirst(h, res, cid, vid) ==
    LET v == res[vid]
        h1 == [h EXCEPT ![v].injected = Append(@, cid)]
    IN [h1 EXCEPT ![v].required = uniqPreserveOrder(h1[v].required \o h1[res[cid]].required)]

\* Lines 992-998: the victim's Resolved gets c in injected and its required rebuilt
ApplyInject(h, res, cid, vid) ==
    LET v == res[vid]
        h1 == [h EXCEPT ![v].injected = Append(@, cid)]
    IN [h1 EXCEPT ![v].required = uniqPreserveOrder(h1[res[cid]].required \o h1[v].required)]

\* Lines 985-998: one iteration of "for inject in c.injects"
LoadInject ==
    /\ UNCHANGED otherVars
    /\ pc = "inject"
    /\ LET c == reg[idx]
           victim == LookupProvides(reg, c.injects[jdx])
           nxt == NextInject(reg, resolved, heap, idx, jdx + 1)
       IN /\ heap' = IF victim = 0 THEN heap
                     ELSE ApplyInject(heap, resolved, c.id, reg[victim].id)
          /\ idx' = nxt[1]
          /\ jdx' = nxt[2]
          /\ pc' = IF nxt[1] = 0 THEN "done" ELSE "inject"
    /\ UNCHANGED <<reg, props, routing, mappings, cache, stack, resolved, call, ncalls>>

----
\* A test's use of the resolver: Resolver(r, t), then resolve calls

NewResolver ==
    /\ UNCHANGED otherVars
    /\ pc = "ready"
    /\ pc' = "direct"
    /\ mappings' = None
    /\ cache' = EmptyMap
    /\ UNCHANGED <<reg, props, routing, idx, jdx, heap, stack, resolved, call, ncalls>>

ResolveCall ==
    /\ UNCHANGED otherVars
    /\ pc = "direct"
    /\ ncalls < MaxCalls
    /\ \E what \in Specs : DoResolve(what)
    /\ ncalls' = ncalls + 1
    /\ UNCHANGED <<reg, props, routing, pc, idx, jdx, resolved>>

\* Registry.load on a workspace
Next ==
    \/ AppendComponent
    \/ NewTarget
    \/ LoadBegin
    \/ LoadResolve
    \/ LoadInject

Spec == Init /\ [][Next]_vars

\* A resolver test: a registry, a target, a Resolver, resolve calls
NextTest ==
    \/ AppendPlain
    \/ NewTarget
    \/ NewResolver
    \/ ResolveCall

SpecTest == Init /\ [][NextTest]_vars

----
\* Properties

\* C.resolved[T] of the component with id `id`
Res(id) == heap[resolved[id]]

\* Resolved.enabled
Enabled(r) == r.reason = None

Loaded(i) == reg[i].id \in DOMAIN resolved

NoDuplicates(l) == \A m, n \in 1..Len(l) : m # n => l[m] # l[n]

\* The enablement predicate of the specification: every enableIf key is a
\* target prop whose value is among the allowed values
EnabledFor(c) ==
    \A e \in 1..Len(c.enableIf) :
        /\ c.enableIf[e][1] \in DOMAIN props
        /\ InList(props[c.enableIf[e][1]], c.enableIf[e][2])

\* x requires a spec whose selected provider is y
DependsOn(x, y) ==
    \E q \in 1..Len(reg[Lookup(reg, x)].requires) :
        Provider(mappings, reg, props, reg[Lookup(reg, x)].requires[q])[1] = Some(y)

\* C1: after Registry.load (resolution, then injection), every component that
\* is enabled for the target has its own id in its required list, at position 0.
C1_SelfFirstAfterLoad ==
    pc = "done" =>
        \A i \in 1..Len(reg) :
            Enabled(Res(reg[i].id)) =>
                /\ Res(reg[i].id).required # <<>>
                /\ Res(reg[i].id).required[1] = reg[i].id

\* C2: after Registry.load, every required list is closed under dependencies:
\* for every x in C.required, every element of x.required is in C.required.
C2_RequiredClosed ==
    pc = "done" =>
        \A i \in 1..Len(reg) :
            LET req == Res(reg[i].id).required
            IN \A n \in 1..Len(req) :
                  \A m \in 1..Len(Res(req[n]).required) :
                      InList(Res(req[n]).required[m], req)

\* C3: the required list of an enabled component is a link order: no element
\* of the list depends (requires, under the selected providers) on an element
\* placed before it. Stated of the lists as the resolver returned them, before
\* any injection rebuilt them.
C3_LinkOrder ==
    \A i \in 1..Len(reg) :
        (Loaded(i) /\ Enabled(Res(reg[i].id)) /\ Res(reg[i].id).injected = <<>>) =>
            LET req == Res(reg[i].id).required
            IN \A m, n \in 1..Len(req) : m < n => ~DependsOn(req[n], req[m])

\* C4: every required list, of every Resolved the resolver created and after
\* every injection step, holds no id more than once.
C4_NoDuplicates ==
    \A h \in 1..Len(heap) : NoDuplicates(heap[h].required)

\* The case of C4: a component whose requires name one provider twice was
\* resolved, and that provider was then injected into it.
C4_Witness ==
    /\ pc = "done"
    /\ \E i \in 1..Len(reg) :
          /\ Enabled(Res(reg[i].id))
          /\ Len(reg[i].requires) = 2
          /\ reg[i].requires[1] = reg[i].requires[2]
          /\ Res(reg[i].id).injected = <<reg[i].requires[1]>>
          /\ Len(Res(reg[i].id).required) = 2

\* A resolve call was made; it ran the provider selection of line 735
Made == call.what # ""

Fresh == Made /\ ~call.hit

\* The object the latest call returned
Returned == heap[call.ret]

\* providers[spec] of the baked resolver, one entry per mapping
MappedTo(spec) == IF spec \in DOMAIN mappings THEN mappings[spec] ELSE <<>>

EnabledEntries(spec) ==
    SelectSeq(MappedTo(spec), LAMBDA id : EnabledFor(reg[Lookup(reg, id)]))

Fails(c, e) ==
    \/ c.enableIf[e][1] \notin DOMAIN props
    \/ ~InList(props[c.enableIf[e][1]], c.enableIf[e][2])

\* The reason the specification gives for a component whose enableIf fails:
\* it names the first failing key, in enableIf order
DisabledReason(c) ==
    LET e == CHOOSE x \in 1..Len(c.enableIf) :
                Fails(c, x) /\ \A y \in 1..(x - 1) : ~Fails(c, y)
        k == c.enableIf[e][1]
        v == c.enableIf[e][2]
    IN IF k \notin DOMAIN props
       THEN "Missing props '" \o k \o "' in target"
       ELSE "Props missmatch for '" \o k \o "': Got '" \o PyStr(props[k])
            \o "' but expected "
            \o Join(", ", [i \in 1..Len(v) |-> "'" \o PyStr(v[i]) \o "'"])

NoProviderFor(spec) == "No provider for '" \o spec \o "'"

\* The outcomes of provider selection that C5 and its amendment share
SelectionRest ==
    LET en == EnabledEntries(call.what)
    IN /\ Len(en) > 1 =>
            /\ call.keep = None
            /\ call.reason = "Multiple providers for '" \o call.what \o "': " \o Join(",", en)
       /\ Len(en) = 1 => call.keep = Some(en[1])
       /\ call.keep = None =>
            /\ call.raised = None
            /\ Returned.reason = Some(call.reason)

\* C5 (as claimed): provider selection depends only on the enabled providers
\* mapped to the spec: none gives "No provider for '<spec>'", several give
\* "Multiple providers for '<spec>': <ids>", one is selected; the failures are
\* returned in Resolved.reason and not raised.
C5_Original ==
    Fresh =>
        /\ EnabledEntries(call.what) = <<>> =>
              (call.keep = None /\ call.reason = NoProviderFor(call.what))
        /\ SelectionRest

\* C5 (amended): as claimed, except that when exactly one provider is mapped
\* to the spec and it is disabled, the reason is that provider's enableIf
\* reason instead of "No provider for '<spec>'".
C5_ProviderSelection ==
    Fresh =>
        /\ EnabledEntries(call.what) = <<>> =>
              /\ call.keep = None
              /\ call.reason =
                    IF Len(MappedTo(call.what)) = 1
                    THEN DisabledReason(reg[Lookup(reg, MappedTo(call.what)[1])])
                    ELSE NoProviderFor(call.what)
        /\ SelectionRest

\* The case of C5's amendment: the only provider mapped to the resolved spec is
\* disabled, and the call returned its enableIf reason.
C5_Witness ==
    /\ Fresh
    /\ Len(MappedTo(call.what)) = 1
    /\ EnabledEntries(call.what) = <<>>
    /\ MappedTo(call.what)[1] # call.what
    /\ Returned.reason = Some("Missing props 'k' in target")

\* C6: routing dominates provides: resolving a routed spec selects the routed
\* component when it exists and is enabled, and gives "No provider for '<s>'"
\* when the routed id names no component.
C6_RoutingDominates ==
    (Made /\ call.what \in DOMAIN routing /\ call.raised = None) =>
        LET id == routing[call.what]
            ci == Lookup(reg, id)
        IN /\ (ci # 0 /\ EnabledFor(reg[ci])) =>
                (id \in DOMAIN cache /\ call.ret = cache[id])
           /\ ci = 0 => Returned.reason = Some(NoProviderFor(call.what))

\* Only the component `id` itself is mapped to the spec `id`
OnlySelf(id) ==
    /\ id \notin DOMAIN routing
    /\ \A i \in 1..Len(reg) : reg[i].id # id => ~InList(id, reg[i].provides)

\* C7: a component that lists its own id in provides is selected when its id
\* is resolved: no "Multiple providers", and required starts with its id.
C7_SelfProvides ==
    LET ci == Lookup(reg, call.what)
    IN (Made /\ ci # 0 /\ InList(call.what, reg[ci].provides)
          /\ EnabledFor(reg[ci]) /\ OnlySelf(call.what) /\ call.raised = None) =>
            /\ ~call.hit => call.keep = Some(call.what)
            /\ Enabled(Returned) =>
                  (Returned.required # <<>> /\ Returned.required[1] = call.what)

\* C8: after Registry.load a component is enabled for the target only if its
\* enableIf holds of the target props.
C8_EnableIfRespected ==
    pc = "done" =>
        \A i \in 1..Len(reg) : Enabled(Res(reg[i].id)) => EnabledFor(reg[i])

\* C9: resolving the id of a component whose enableIf fails returns, without
\* raising, a disabled Resolved whose reason names the first failing key:
\* "Missing props '<k>' in target" or "Props missmatch for '<k>': ...".
C9_DisabledReason ==
    LET ci == Lookup(reg, call.what)
    IN (Made /\ ci # 0 /\ ~EnabledFor(reg[ci])) =>
            /\ call.raised = None
            /\ Returned.reason = Some(DisabledReason(reg[ci]))

\* The statement of C9 for a component that is the one entry mapped to its id
\* (the id is not routed, and neither the component nor another provides it)
DisabledReasonOfOnlyEntry ==
    LET ci == Lookup(reg, call.what)
    IN (Made /\ ci # 0 /\ ~EnabledFor(reg[ci]) /\ MappedTo(call.what) = <<call.what>>) =>
            /\ call.raised = None
            /\ Returned.reason = Some(DisabledReason(reg[ci]))

\* The id of a component with two enableIf keys, both failing, was resolved,
\* and the reason names the first key
FirstOfTwoFailingKeys ==
    LET ci == Lookup(reg, call.what)
    IN /\ Made
       /\ ci # 0
       /\ MappedTo(call.what) = <<call.what>>
       /\ Len(reg[ci].enableIf) = 2
       /\ Fails(reg[ci], 1)
       /\ Fails(reg[ci], 2)
       /\ reg[ci].enableIf[1][1] = "j"
       /\ Returned.reason = Some("Missing props 'j' in target")

\* No injection has rebuilt a required list yet
Pristine == \A h \in 1..Len(heap) : heap[h].injected = <<>>

\* The n-th logged requirement is the first of its component to carry a reason
FirstFailing(n) ==
    /\ heap[call.trace[n][3]].reason # None
    /\ \A m \in 1..(n - 1) :
          call.trace[m][1] = call.trace[n][1] => heap[call.trace[m][3]].reason = None

\* C10: when a requirement of the selected provider P resolves with a reason,
\* at any depth, resolve does not raise and caches for P a Resolved with the
\* reason of P's first failing requirement (in requires order) and an empty
\* required list, and returns it; loading stops only on an exception, every
\* component before the current one having its entry.
C10_ReasonPropagates ==
    /\ pc = "raised" <=> call.raised # None
    /\ pc = "resolve" => \A i \in 1..(idx - 1) : Loaded(i)
    /\ pc \in {"inject", "done"} => \A i \in 1..Len(reg) : Loaded(i)
    /\ (Made /\ Pristine) =>
          \A n \in 1..Len(call.trace) :
              LET K == call.trace[n][1]
                  nth == Cardinality({m \in 1..n : call.trace[m][1] = K})
              IN /\ call.trace[n][2] = reg[Lookup(reg, K)].requires[nth]
                 /\ FirstFailing(n) =>
                       /\ call.raised = None
                       /\ K \in DOMAIN cache
                       /\ heap[cache[K]].reason = heap[call.trace[n][3]].reason
                       /\ heap[cache[K]].required = <<>>
                       /\ \A m \in (n + 1)..Len(call.trace) : call.trace[m][1] # K
                       /\ (call.keep = Some(K) /\ ~call.hitKeep) => call.ret = cache[K]

\* The case of C10: the first component requires a component whose own
\* requirement has no provider; the reason went up two levels and the load
\* went on to the next component.
C10_Witness ==
    /\ pc = "resolve"
    /\ idx = 2
    /\ Len(call.trace) = 2
    /\ call.trace[1][1] # call.trace[2][1]
    /\ call.trace[2][1] = call.what
    /\ FirstFailing(1)
    /\ FirstFailing(2)
    /\ Returned.reason = Some(NoProviderFor(call.trace[1][2]))

----
\* Cycles of the requires relation

\* The components x depends on: the selected providers of its requirements
Succ(x) == {reg[i].id : i \in {j \in 1..Len(reg) : DependsOn(x, reg[j].id)}}

RECURSIVE Closure(_, _)
\* The components reachable from those of S in at most n more steps
Closure(S, n) ==
    IF n = 0 THEN S ELSE Closure(S \cup UNION {Succ(y) : y \in S}, n - 1)

\* The components reachable from x in one step or more
ReachPlus(x) == Closure(Succ(x), Len(reg))

\* A cycle of the requires relation is reachable from the component x
CycleFrom(x) == \E n \in {x} \cup ReachPlus(x) : n \in ReachPlus(n)

\* The exception of the latest call is a dependency-loop error that names the
\* stack as the call left it and a provider that is on it
LoopRaised ==
    \E w \in Specs : \E k \in IdSet :
        /\ InList(k, stack)
        /\ call.raised = Some(LoopMessage(w, stack, k))

\* C11: resolving a spec whose selected provider reaches a cycle of the
\* requires relation never yields an enabled Resolved: the call raises the
\* "Dependency loop while resolving" error naming the stack and the repeated
\* provider, unless a requirement resolved with a reason before the cycle was
\* closed; and every exception of resolve is that error.
C11_CycleDetected ==
    LET pr == Provider(mappings, reg, props, call.what)
    IN /\ (Made /\ call.raised # None) => LoopRaised
       /\ (Made /\ pr[1] # None /\ CycleFrom(pr[1][1])) =>
             (call.raised # None \/ Returned.reason # None)

----
\* Memoization

\* resolve(what) on a Resolver just constructed for the same registry and
\* target: empty cache, empty stack
FreshResolve(what) ==
    Resolve([reg |-> reg, mappings |-> Bake(reg, routing), props |-> props], what,
            [cache |-> EmptyMap, heap |-> <<>>, stack |-> <<>>, trace |-> <<>>])

\* C12: whatever was resolved earlier on the same Resolver, resolve(spec) gives
\* what it gives on a Resolver that resolved nothing before: it raises in the
\* same cases, and returns the same reason and the same required list.
C12_CacheTransparent ==
    Made =>
        LET f == FreshResolve(call.what)
        IN /\ (call.raised = None) <=> (f.raised = None)
           /\ call.raised = None =>
                 /\ Returned.reason = f.heap[f.ret].reason
                 /\ Returned.required = f.heap[f.ret].required

----
\* Registry._append

\* Kind, without UNKNOWN
Kinds == {"project", "target", "lib", "exe"}

\* Manifest.path
Paths == {"p", "q"}

\* Manifest(id, type, path)
Manifest(id, type, path) == [id |-> id, type |-> type, path |-> path]

\* m.id in self.manifests
HasId(ms, id) == \E i \in 1..Len(ms) : ms[i].id = id

\* self.manifests[id]
ManifestOf(ms, id) == ms[CHOOSE i \in 1..Len(ms) : ms[i].id = id]

\* _append without the check of line 803: the dict assignment replaces the entry
DoAppend_Overwrite(ms, m) ==
    [manifests |-> IF HasId(ms, m.id)
                   THEN [i \in 1..Len(ms) |-> IF ms[i].id = m.id THEN m ELSE ms[i]]
                   ELSE Append(ms, m),
     raised |-> None]

\* Registry._append(m): the manifests after the call and the exception raised
DoAppend(ms, m) ==
    IF HasId(ms, m.id)
    THEN [manifests |-> ms,
          raised |-> Some("Duplicated manifest '" \o m.id \o "' at '" \o m.path
                          \o "' already loaded from '" \o ManifestOf(ms, m.id).path \o "'")]
    ELSE [manifests |-> Append(ms, m), raised |-> None]

\* What the registry's construction leaves alone
OnlyRegistry == UNCHANGED <<resolverVars, externVars, cdefVars, cincVars, jexprVars, mainVars, parseVars, toolVars, buildVars>>

\* r._append(m), for any manifest m
RegistryAppend ==
    /\ \E id \in IdSet : \E type \in Kinds : \E path \in Paths :
          LET m == Manifest(id, type, path)
              r == DoAppend(manifests, m)
          IN /\ manifests' = r.manifests
             /\ appended' = [m |-> m, raised |-> r.raised, before |-> manifests]
    /\ OnlyRegistry

NextAppend == RegistryAppend

\* Any sequence of Registry._append calls
SpecAppend == Init /\ [][NextAppend]_vars

\* C13: after any sequence of _append calls no two manifests have the same
\* id, whatever their kinds; an _append of an id already present raises
\* "Duplicated manifest ..." and leaves the manifests as they were, and an
\* _append of a new id adds the manifest at the end.
C13_UniqueIds ==
    /\ \A i, j \in 1..Len(manifests) : i # j => manifests[i].id # manifests[j].id
    /\ appended.m.id # "" =>
          IF HasId(appended.before, appended.m.id)
          THEN /\ appended.raised # None
               /\ manifests = appended.before
          ELSE /\ appended.raised = None
               /\ manifests = Append(appended.before, appended.m)

\* The case of C13: a manifest was appended under the id of a manifest of
\* another kind, and the call raised.
C13_Witness ==
    /\ Len(manifests) = 2
    /\ HasId(appended.before, appended.m.id)
    /\ ManifestOf(manifests, appended.m.id).type # appended.m.type
    /\ appended.raised =
          Some("Duplicated manifest 'a' at 'q' already loaded from 'p'")

----
\* Extern fetching: Project.fetchExterns and the extern phase of Registry.load

\* Number of externs the root project declares
MaxExterns == 2

\* Ids of the root project's externs
ExternIds == {"x", "y"}

\* Names an extern may be installed under
PkgNames == {"m", "n"}

\* What a git extern's directory holds once `git clone` has run or was not
\* needed; "fail": the directory is absent and the clone exits non-zero
Checkouts == {"fail", "empty", "manifest", "project"}

\* Extern(id, git, names)
Extern(id, git, names) == [id |-> id, git |-> git, names |-> names]

\* utils.uniq(res, key): of the elements with one id, the last is kept
uniqById(l) ==
    SelectSeqFn(l, [i \in 1..Len(l) |-> ~\E j \in (i + 1)..Len(l) : l[j].id = l[i].id])

\* A fetch outcome: the manifests returned, or the exception raised
Fetched(ms) == [raised |-> None, manifests |-> ms]

FetchFailed(msg) == [raised |-> Some(msg), manifests |-> <<>>]

\* _fetchLibrary raising when pkg-config finds none of the names
FetchLibrary_Fatal(e, w) ==
    IF \E i \in 1..Len(e.names) : e.names[i] \in w.pkgs
    THEN Fetched(<<Manifest(e.id \o "-host", "lib", "src/_virtual")>>)
    ELSE FetchFailed("pkg-config: Process exited with code 1")

\* Extern._fetchLibrary: the virtual component when pkg-config finds one of
\* the names, else the empty list
FetchLibrary(e, w) ==
    IF \E i \in 1..Len(e.names) : e.names[i] \in w.pkgs
    THEN Fetched(<<Manifest(e.id \o "-host", "lib", "src/_virtual")>>)
    ELSE Fetched(<<>>)

RECURSIVE FetchExternsFrom(_, _)

\* Extern._fetchGit; the externs of a project found in a checkout are w.nested
FetchGit(e, w) ==
    LET at == w.checkout[e.id]
    IN IF at = "fail" THEN FetchFailed("git: Process exited with code 128")
       ELSE IF at = "project"
       THEN LET sub == FetchExternsFrom(w.nested, w)
            IN IF sub.raised # None THEN sub
               ELSE Fetched(<<Manifest(e.id, "project", e.id)>> \o sub.manifests)
       ELSE IF at = "manifest" THEN Fetched(<<Manifest(e.id, "lib", e.id)>>)
       ELSE Fetched(<<>>)

\* Extern.fetch
Fetch(e, w) == IF e.git THEN FetchGit(e, w) ELSE FetchLibrary(e, w)

\* The loop of Project.fetchExterns, from extern exts[1] on
FetchExternsFrom(exts, w) ==
    IF exts = <<>> THEN Fetched(<<>>)
    ELSE LET first == Fetch(exts[1], w)
         IN IF first.raised # None THEN first
            ELSE LET rest == FetchExternsFrom(Tail(exts), w)
                 IN IF rest.raised # None THEN rest
                    ELSE Fetched(first.manifests \o rest.manifests)

\* Project.fetchExterns
FetchExterns(exts, w) ==
    LET res == FetchExternsFrom(exts, w)
    IN IF res.raised # None THEN res ELSE Fetched(uniqById(res.manifests))

RECURSIVE Extend(_, _)
\* Registry._extend(ms) on the manifests r
Extend(r, ms) ==
    IF ms = <<>> THEN Fetched(r)
    ELSE LET one == DoAppend(r, ms[1])
         IN IF one.raised # None THEN [raised |-> one.raised, manifests |-> one.manifests]
            ELSE Extend(one.manifests, Tail(ms))

\* Registry.load up to _loadExterns: r._append(project), r._extend(p.fetchExterns())
LoadExternsOf(w) ==
    LET got == FetchExterns(w.extern, w)
    IN IF got.raised # None THEN got
       ELSE Extend(<<Manifest("root", "project", "root")>>, got.manifests)

\* The externs a project may declare: host packages and git repositories
ExternsOver(ids) ==
    {Extern(id, g, ns) : id \in ids, g \in BOOLEAN,
                         ns \in {<<>>, <<"m">>, <<"m", "n">>}}

OnlyExterns == UNCHANGED <<resolverVars, registryVars, cdefVars, cincVars, jexprVars, mainVars, parseVars, toolVars, buildVars>>

\* A workspace: the root project's externs (distinct ids), the host's
\* packages, the checkouts, and the externs of the projects in the checkouts
NewWorkspace ==
    /\ workspace = NoWorkspace
    /\ ~fetched.done
    /\ \E exts \in SeqsUpTo(ExternsOver(ExternIds), MaxExterns) :
       \E pk \in SUBSET PkgNames :
       \E co \in [ExternIds -> Checkouts] :
       \E sub \in {<<>>, <<Extern("z", FALSE, <<"n">>)>>} :
          /\ \A i, j \in 1..Len(exts) : i # j => exts[i].id # exts[j].id
          /\ workspace' = [extern |-> exts, pkgs |-> pk, checkout |-> co, nested |-> sub]
    /\ UNCHANGED fetched
    /\ OnlyExterns

\* Registry.load, its extern phase
LoadExterns ==
    /\ ~fetched.done
    /\ LET r == LoadExternsOf(workspace)
       IN fetched' = [done |-> TRUE, raised |-> r.raised, manifests |-> r.manifests]
    /\ UNCHANGED workspace
    /\ OnlyExterns

NextExterns ==
    \/ NewWorkspace
    \/ LoadExterns

SpecExterns == Init /\ [][NextExterns]_vars

\* The extern e of the root project cannot be resolved: a host package none
\* of whose names pkg-config finds, or a git checkout with neither a project
\* nor a manifest
Unresolvable(e) ==
    IF e.git THEN workspace.checkout[e.id] = "empty"
    ELSE \A i \in 1..Len(e.names) : e.names[i] \notin workspace.pkgs

\* The clone of the git extern e fails
CloneFails(e) == e.git /\ workspace.checkout[e.id] = "fail"

RootExterns == {workspace.extern[i] : i \in 1..Len(workspace.extern)}

----
\* Strings of the builder: sequences of characters, ordered as Python orders
\* str values (by code point)

\* ord(c), for the characters used
Ord(c) ==
    CASE c = " " -> 32 [] c = "+" -> 43 [] c = "-" -> 45 [] c = "." -> 46
      [] c = "/" -> 47 [] c = "1" -> 49 [] c = "2" -> 50 [] c = "=" -> 61
      [] c = "D" -> 68 [] c = "I" -> 73 [] c = "_" -> 95 [] c = "a" -> 97
      [] c = "b" -> 98 [] c = "c" -> 99 [] c = "e" -> 101 [] c = "g" -> 103
      [] c = "k" -> 107 [] c = "l" -> 108 [] c = "u" -> 117 [] c = "v" -> 118
      [] c = "x" -> 120 [] c = "y" -> 121 [] c = "d" -> 100 [] c = "i" -> 105
      [] c = "n" -> 110 [] c = "r" -> 114 [] c = "s" -> 115 [] c = "t" -> 116

\* str.isalnum, for one character
IsAlnum(c) ==
    \/ Ord(c) \in 48..57
    \/ Ord(c) \in 65..90
    \/ Ord(c) \in 97..122

RECURSIVE StrLess(_, _)
\* s < t, for str
StrLess(s, t) ==
    IF t = <<>> THEN FALSE
    ELSE IF s = <<>> THEN TRUE
    ELSE IF s[1] # t[1] THEN Ord(s[1]) < Ord(t[1])
    ELSE StrLess(Tail(s), Tail(t))

RECURSIVE Sorted(_)
\* sorted(S), for a set of str
Sorted(S) ==
    IF S = {} THEN <<>>
    ELSE LET least == CHOOSE x \in S : \A y \in S \ {x} : StrLess(x, y)
         IN <<least>> \o Sorted(S \ {least})

\* s.replace(r, "_"), for a one-character r
ReplaceChar(s, r) == [i \in 1..Len(s) |-> IF s[i] = r THEN "_" ELSE s[i]]

\* sanatize that leaves the string as it is
sanatize_Identity(s) == s

\* sanatize of _computeCdef: " ", "-", "." become "_", then every character
\* that is neither alphanumeric nor "_" is dropped
sanatize(s) ==
    SelectSeq(ReplaceChar(ReplaceChar(ReplaceChar(s, " "), "-"), "."),
              LAMBDA c : IsAlnum(c) \/ c = "_")

\* str(v) of a prop value <<"bool", b>>, <<"int", digits with sign>>, <<"str", s>>
StrOf(v) ==
    IF v[1] = "bool" THEN (IF v[2] THEN <<"T", "r", "u", "e">> ELSE <<"F", "a", "l", "s", "e">>)
    ELSE v[2]

\* "-D__ck_"
CkPrefix == <<"-", "D", "_", "_", "c", "k", "_">>

\* The -D flags _computeCdef adds for one prop
CdefOf(k, v) ==
    IF v[1] = "bool"
    THEN (IF v[2] THEN {CkPrefix \o sanatize(k) \o <<"_", "_">>} ELSE {})
    ELSE {CkPrefix \o sanatize(k) \o <<"_">> \o sanatize(StrOf(v)) \o <<"_", "_">>,
          CkPrefix \o sanatize(k) \o <<"_", "v", "a", "l", "u", "e", "=">> \o StrOf(v)}

\* _computeCdef(scope), of scope.target.props
computeCdef(p) == Sorted(UNION {CdefOf(p[i][1], p[i][2]) : i \in 1..Len(p)})

\* Number of props of the target
MaxProps == 2

\* Prop keys
PropKeys == {<<"a">>, <<"a", "-", "b">>, <<"a", "_", "b">>, <<"b", ".", "c">>, <<"a", "+">>}

\* Prop values: bool, int (the characters of its decimal text), str
Scalars ==
    {<<"bool", TRUE>>, <<"bool", FALSE>>, <<"int", <<"1">>>>, <<"int", <<"-", "2">>>>,
     <<"str", <<"x">>>>, <<"str", <<"x", " ", "y">>>>, <<"str", <<"1">>>>}

OnlyCdef == UNCHANGED <<resolverVars, registryVars, externVars, cincVars, jexprVars, mainVars, parseVars, toolVars, buildVars>>

\* A target with its props
NewProps ==
    /\ targetProps = <<>>
    /\ cdefs = None
    /\ \E p \in SeqsUpTo(PropKeys \X Scalars, MaxProps) :
          /\ \A i, j \in 1..Len(p) : i # j => p[i][1] # p[j][1]
          /\ targetProps' = p
    /\ UNCHANGED cdefs
    /\ OnlyCdef

\* The evaluation of the variable cdefs
ComputeCdef ==
    /\ cdefs = None
    /\ cdefs' = Some(computeCdef(targetProps))
    /\ UNCHANGED targetProps
    /\ OnlyCdef

NextCdef ==
    \/ NewProps
    \/ ComputeCdef

SpecCdef == Init /\ [][NextCdef]_vars

\* Strictly increasing in the order of str: sorted and duplicate-free
StrictlySorted(l) == \A i, j \in 1..Len(l) : i < j => StrLess(l[i], l[j])

\* The elements of a list
Elems(l) == {l[i] : i \in 1..Len(l)}

\* The orders in which the pairs of a dict may have been inserted
Reorderings(p) ==
    {q \in [1..Len(p) -> Elems(p)] : Elems(q) = Elems(p)}

RECURSIVE Clean(_)
\* The name of a key or value inside a -D__ck_ flag: " ", "-" and "." read
\* "_", letters, digits and "_" stay, every other character is left out
Clean(s) ==
    IF s = <<>> THEN <<>>
    ELSE LET c == s[1]
         IN (IF c \in {" ", "-", "."} THEN <<"_">>
             ELSE IF IsAlnum(c) \/ c = "_" THEN <<c>>
             ELSE <<>>) \o Clean(Tail(s))

\* The flags the claim gives for the prop k = v, k and v written as they are
ClaimedCdefOf(k, v) ==
    IF v = <<"bool", TRUE>> THEN {CkPrefix \o k \o <<"_", "_">>}
    ELSE IF v = <<"bool", FALSE>> THEN {}
    ELSE {CkPrefix \o k \o <<"_">> \o v[2] \o <<"_", "_">>,
          CkPrefix \o k \o <<"_", "v", "a", "l", "u", "e", "=">> \o v[2]}

\* The same with k and v cleaned inside the __ck_ names
CleanedCdefOf(k, v) ==
    IF v = <<"bool", TRUE>> THEN {CkPrefix \o Clean(k) \o <<"_", "_">>}
    ELSE IF v = <<"bool", FALSE>> THEN {}
    ELSE {CkPrefix \o Clean(k) \o <<"_">> \o Clean(v[2]) \o <<"_", "_">>,
          CkPrefix \o Clean(k) \o <<"_", "v", "a", "l", "u", "e", "=">> \o v[2]}

\* C15 (as claimed): cdefs is sorted, the same under any reordering of the
\* props, and holds exactly "-D__ck_<k>__" for a true prop, nothing for a false
\* one, "-D__ck_<k>_<v>__" and "-D__ck_<k>_value=<v>" for any other value.
C15_Original ==
    cdefs # None =>
        /\ StrictlySorted(cdefs[1])
        /\ \A q \in Reorderings(targetProps) : computeCdef(q) = cdefs[1]
        /\ Elems(cdefs[1]) =
              UNION {ClaimedCdefOf(targetProps[i][1], targetProps[i][2]) :
                        i \in 1..Len(targetProps)}

\* C15 (amended): the same, with <k> and <v> cleaned inside the __ck_ names
\* (" ", "-", "." replaced by "_", other non-alphanumeric characters dropped)
\* and <v> as it is after "value=".
C15_Cdefs ==
    cdefs # None =>
        /\ StrictlySorted(cdefs[1])
        /\ \A q \in Reorderings(targetProps) : computeCdef(q) = cdefs[1]
        /\ Elems(cdefs[1]) =
              UNION {CleanedCdefOf(targetProps[i][1], targetProps[i][2]) :
                        i \in 1..Len(targetProps)}

\* The case of C15: a true prop whose key holds "-" after a string prop whose
\* value holds a space; three flags come out, the true prop's first.
C15_Witness ==
    /\ cdefs # None
    /\ targetProps = << <<<<"b", ".", "c">>, <<"str", <<"x", " ", "y">>>>>>,
                        <<<<"a", "-", "b">>, <<"bool", TRUE>>>> >>
    /\ Len(cdefs[1]) = 3
    /\ cdefs[1][1] = CkPrefix \o <<"a", "_", "b", "_", "_">>

----
\* The builder's variable cincs (_computeCinc)

\* const.GENERATED_DIR, ".cutekit/generated"
GENERATED_DIR ==
    <<".", "c", "u", "t", "e", "k", "i", "t", "/",
      "g", "e", "n", "e", "r", "a", "t", "e", "d">>

\* os.path.join(const.GENERATED_DIR, "__aliases__")
includeAliases ==
    GENERATED_DIR \o <<"/", "_", "_", "a", "l", "i", "a", "s", "e", "s", "_", "_">>

\* os.path.join(const.GENERATED_DIR)
includeGenerated == GENERATED_DIR

\* Index of the last "/" of a path, 0 if it has none
LastSlash(d) ==
    IF \E i \in 1..Len(d) : d[i] = "/"
    THEN CHOOSE i \in 1..Len(d) : d[i] = "/" /\ \A j \in (i + 1)..Len(d) : d[j] # "/"
    ELSE 0

\* str(Path(d).parent), for a normalised relative path d
Parent(d) ==
    IF LastSlash(d) = 0 THEN <<".">> ELSE SubSeq(d, 1, LastSlash(d) - 1)

\* What one enabled component adds to res, with cpp-excluded tested first
CincOf_ExcludedFirst(c) ==
    IF "cpp-excluded" \in c.props THEN {}
    ELSE IF "cpp-root-include" \in c.props THEN {c.dirname}
    ELSE IF c.type = "lib" THEN {Parent(c.dirname)}
    ELSE {}

\* What one enabled component adds to res in the loop of _computeCinc
CincOf(c) ==
    IF "cpp-root-include" \in c.props THEN {c.dirname}
    ELSE IF "cpp-excluded" \in c.props THEN {}
    ELSE IF c.type = "lib" THEN {Parent(c.dirname)}
    ELSE {}

\* _computeCinc(scope), of the components enabled for scope.target
computeCinc(cs) ==
    LET res == {includeAliases, includeGenerated}
                   \cup UNION {CincOf(cs[i]) : i \in 1..Len(cs)}
    IN Sorted({<<"-", "I">> \o i : i \in res})

\* Number of components enabled for the target
MaxComps == 2

\* Directories of the manifests, relative to the working directory
Dirnames == {<<"a">>, <<"a", "/", "b">>, <<"b">>, <<".">>}

\* The props of a component that _computeCinc looks at, and one it does not
CincProps == {"cpp-root-include", "cpp-excluded", "x"}

\* The enabled components _computeCinc may see
CincComps ==
    [type : {"lib", "exe"}, props : SUBSET CincProps, dirname : Dirnames]

OnlyCinc == UNCHANGED <<resolverVars, registryVars, externVars, cdefVars, jexprVars, mainVars, parseVars, toolVars, buildVars>>

\* A registry whose components enabled for the target are cs
NewEnabled ==
    /\ enabledComps = <<>>
    /\ cincs = None
    /\ \E cs \in SeqsUpTo(CincComps, MaxComps) : enabledComps' = cs
    /\ UNCHANGED cincs
    /\ OnlyCinc

\* The evaluation of the variable cincs
ComputeCinc ==
    /\ cincs = None
    /\ cincs' = Some(computeCinc(enabledComps))
    /\ UNCHANGED enabledComps
    /\ OnlyCinc

NextCinc ==
    \/ NewEnabled
    \/ ComputeCinc

SpecCinc == Init /\ [][NextCinc]_vars

\* "-I" before a directory
IFlag(d) == <<"-", "I">> \o d

\* What the claim lets a component contribute: cpp-excluded silences it
\* whatever its other props
ClaimedCincOf(c) ==
    IF "cpp-excluded" \in c.props THEN {}
    ELSE IF "cpp-root-include" \in c.props THEN {c.dirname}
    ELSE IF c.type = "lib" THEN {Parent(c.dirname)}
    ELSE {}

\* What a component contributes when cpp-excluded silences it only in the
\* absence of cpp-root-include
PolicyCincOf(c) ==
    IF "cpp-root-include" \in c.props THEN {c.dirname}
    ELSE IF "cpp-excluded" \in c.props THEN {}
    ELSE IF c.type = "lib" THEN {Parent(c.dirname)}
    ELSE {}

\* C16 (as claimed): cincs is sorted and duplicate-free, holds the two
\* generated directories, and beyond them exactly what the policy gives: the
\* own directory for cpp-root-include, nothing for cpp-excluded whatever the
\* other props, the parent directory for any other Lib, nothing for any other
\* Exe.
C16_Original ==
    cincs # None =>
        /\ StrictlySorted(cincs[1])
        /\ Elems(cincs[1]) =
              {IFlag(includeAliases), IFlag(includeGenerated)}
                 \cup {IFlag(d) : d \in UNION {ClaimedCincOf(enabledComps[i]) :
                                                  i \in 1..Len(enabledComps)}}

\* C16 (amended): the same, where a component with cpp-excluded contributes
\* nothing unless it also has cpp-root-include, which wins.
C16_Cincs ==
    cincs # None =>
        /\ StrictlySorted(cincs[1])
        /\ IFlag(includeAliases) \in Elems(cincs[1])
        /\ IFlag(includeGenerated) \in Elems(cincs[1])
        /\ Elems(cincs[1]) =
              {IFlag(includeAliases), IFlag(includeGenerated)}
                 \cup {IFlag(d) : d \in UNION {PolicyCincOf(enabledComps[i]) :
                                                  i \in 1..Len(enabledComps)}}

\* C16 witness: cincs was computed for an excluded Lib and a Lib with both
\* cpp-root-include and cpp-excluded, and holds the generated directories and
\* the second Lib's own directory only.
C16_Witness ==
    /\ cincs # None
    /\ Len(enabledComps) = 2
    /\ enabledComps[1] = [type |-> "lib", props |-> {"cpp-excluded"},
                          dirname |-> <<"a", "/", "b">>]
    /\ enabledComps[2] = [type |-> "lib",
                          props |-> {"cpp-root-include", "cpp-excluded"},
                          dirname |-> <<"b">>]
    /\ cincs[1] = <<IFlag(includeGenerated), IFlag(includeAliases), IFlag(<<"b">>)>>

----
\* The Jexpr evaluator (jexpr.py). A str is a sequence of characters. A Jexpr
\* value is a tagged tuple: <<"str", s>>, <<"int", digits>>, <<"list", elements>>,
\* <<"dict", (key, value) pairs in insertion order>>, <<"none">>; evaluation
\* also produces <<"fn", name>> (an exposed callable) and <<"coro", path>> (the
\* awaitable includeAsync(Path(path))).

JStr(s) == <<"str", s>>

JInt(digits) == <<"int", digits>>

JList(l) == <<"list", l>>

JDict(pairs) == <<"dict", pairs>>

JNone == <<"none">>

JFn(name) == <<"fn", name>>

JCoro(path) == <<"coro", path>>

\* The limit of `if depth > 10`
DepthLimit == 10

\* Nested expandAsync activations the interpreter allows before it raises
\* RecursionError
MaxNesting == 13

\* An outcome: the value returned or the exception raised, and the deepest
\* nesting of expandAsync activations reached on the way
JOk(v, lvl) == [raised |-> None, val |-> v, level |-> lvl]

JRaise(kind, lvl) == [raised |-> Some(kind), val |-> JNone, level |-> lvl]

Larger(a, b) == IF a > b THEN a ELSE b

\* The text "utils.concat"
ConcatName == <<"u", "t", "i", "l", "s", ".", "c", "o", "n", "c", "a", "t">>

\* The text "utils.first"
FirstName == <<"u", "t", "i", "l", "s", ".", "f", "i", "r", "s", "t">>

\* The text "jexpr.include"
IncludeName ==
    <<"j", "e", "x", "p", "r", ".", "i", "n", "c", "l", "u", "d", "e">>

\* The text jexpr.include('<path>')
IncludeCall(path) == IncludeName \o <<"(", "'">> \o path \o <<"'", ")">>

\* Paths of the files
JPaths == {<<"f">>, <<"g">>}

\* eval(code, globals, locals) for the code of the expressions below, with the
\* exposed names as globals and no locals: a decimal literal, an exposed name,
\* a call of jexpr.include on a literal path; any other such code raises
\* (SyntaxError, NameError, ...)
Eval(code) ==
    IF code # <<>> /\ \A i \in 1..Len(code) : code[i] \in {"1", "2"}
    THEN [raised |-> None, val |-> JInt(code)]
    ELSE IF code = ConcatName THEN [raised |-> None, val |-> JFn("concat")]
    ELSE IF code = FirstName THEN [raised |-> None, val |-> JFn("first")]
    ELSE IF code = IncludeName THEN [raised |-> None, val |-> JFn("include")]
    ELSE IF \E q \in JPaths : code = IncludeCall(q)
    THEN [raised |-> None,
          val |-> JCoro(CHOOSE q \in JPaths : code = IncludeCall(q))]
    ELSE [raised |-> Some("eval"), val |-> JNone]

RECURSIVE Concat(_)
\* "".join(strs)
Concat(strs) == IF strs = <<>> THEN <<>> ELSE Head(strs) \o Concat(Tail(strs))

\* bool(v), for a Jexpr value
Truthy(v) ==
    CASE v[1] = "str" -> v[2] # <<>>
      [] v[1] = "list" -> v[2] # <<>>
      [] v[1] = "dict" -> v[2] # <<>>
      [] v[1] = "none" -> FALSE
      [] OTHER -> TRUE

\* fVal(*args) for the exposed callables: utils.concat is "".join(args),
\* utils.first is arg[0] if arg else None, jexpr.include is
\* includeAsync(Path(path)); TypeError, KeyError and IndexError are "call"
Apply(fVal, args) ==
    IF fVal[1] # "fn" THEN [raised |-> Some("call"), val |-> JNone]
    ELSE IF fVal[2] = "concat"
    THEN IF \A i \in 1..Len(args) : args[i][1] = "str"
         THEN [raised |-> None,
               val |-> JStr(Concat([i \in 1..Len(args) |-> args[i][2]]))]
         ELSE [raised |-> Some("call"), val |-> JNone]
    ELSE IF fVal[2] = "first"
    THEN IF Len(args) # 1 THEN [raised |-> Some("call"), val |-> JNone]
         ELSE IF ~Truthy(args[1]) THEN [raised |-> None, val |-> JNone]
         ELSE IF args[1][1] = "str"
         THEN [raised |-> None, val |-> JStr(<<args[1][2][1]>>)]
         ELSE IF args[1][1] = "list" THEN [raised |-> None, val |-> args[1][2][1]]
         ELSE [raised |-> Some("call"), val |-> JNone]
    ELSE IF Len(args) = 1 /\ args[1][1] = "str"
    THEN [raised |-> None, val |-> JCoro(args[1][2])]
    ELSE [raised |-> Some("call"), val |-> JNone]

\* The arguments *v unpacks to: the elements of a list, the characters of a
\* str, the keys of a dict; anything else is not iterable
Unpack(v) ==
    CASE v[1] = "list" -> Some(v[2])
      [] v[1] = "str" -> Some([i \in 1..Len(v[2]) |-> JStr(<<v[2][i]>>)])
      [] v[1] = "dict" -> Some([i \in 1..Len(v[2]) |-> v[2][i][1]])
      [] OTHER -> None

\* str(v) of an expanded value; of a list, a dict, a function and a coroutine
\* only the kind is kept
StrOfJexpr(v) ==
    CASE v[1] = "str" -> v[2]
      [] v[1] = "int" -> v[2]
      [] v[1] = "none" -> <<"N", "o", "n", "e">>
      [] v[1] = "list" -> <<"[", "]">>
      [] v[1] = "dict" -> <<"{", "}">>
      [] OTHER -> <<"<", ">">>

\* REXPR.search(s): the span of the leftmost match of "{[^}]*}", None if there
\* is none
Search(s) ==
    IF \E i, j \in 1..Len(s) : i < j /\ s[i] = "{" /\ s[j] = "}"
    THEN LET i == CHOOSE i \in 1..Len(s) :
                      /\ s[i] = "{"
                      /\ \E j \in (i + 1)..Len(s) : s[j] = "}"
                      /\ \A k \in 1..(i - 1) :
                            ~(s[k] = "{" /\ \E j \in (k + 1)..Len(s) : s[j] = "}")
             j == CHOOSE j \in (i + 1)..Len(s) :
                      s[j] = "}" /\ \A k \in (i + 1)..(j - 1) : s[k] # "}"
         IN Some(<<i, j>>)
    ELSE None

\* _isListExpr(expr)
isListExpr(expr) ==
    /\ expr[1] = "list"
    /\ Len(expr[2]) > 0
    /\ expr[2][1][1] = "str"
    /\ expr[2][1][2] # <<>>
    /\ expr[2][1][2][1] = "@"

\* result[key] = value, for a dict kept as (key, value) pairs
DictSet(pairs, key, value) ==
    IF \E i \in 1..Len(pairs) : pairs[i][1] = key
    THEN [i \in 1..Len(pairs) |->
             IF pairs[i][1] = key THEN <<key, value>> ELSE pairs[i]]
    ELSE Append(pairs, <<key, value>>)

RECURSIVE expandAsync(_, _, _, _)
RECURSIVE ExpandEach(_, _, _, _)
RECURSIVE ExpandItems(_, _, _, _, _)
RECURSIVE evalStrExprAsync(_, _, _, _)

\* [await expandAsync(e, depth=depth) for e in l], nested in the activation at
\* `level`: the expanded elements, or the first exception
ExpandEach(l, depth, level, fs) ==
    IF l = <<>> THEN JOk(JList(<<>>), level)
    ELSE LET r == expandAsync(Head(l), depth, level + 1, fs)
         IN IF r.raised # None THEN r
            ELSE LET rest == ExpandEach(Tail(l), depth, level, fs)
                 IN IF rest.raised # None
                    THEN JRaise(rest.raised[1], Larger(r.level, rest.level))
                    ELSE JOk(JList(<<r.val>> \o rest.val[2]),
                             Larger(r.level, rest.level))

\* The loop of expandAsync over a dict: key and value are expanded at `depth`,
\* result[key] = value
ExpandItems(pairs, acc, depth, level, fs) ==
    IF pairs = <<>> THEN JOk(JDict(acc), level)
    ELSE LET key == expandAsync(Head(pairs)[1], depth, level + 1, fs)
         IN IF key.raised # None THEN key
            ELSE LET value == expandAsync(Head(pairs)[2], depth, level + 1, fs)
                 IN IF value.raised # None
                    THEN JRaise(value.raised[1], Larger(key.level, value.level))
                    ELSE LET rest == ExpandItems(Tail(pairs),
                                                 DictSet(acc, key.val, value.val),
                                                 depth, level, fs)
                         IN [rest EXCEPT !.level =
                                Larger(rest.level, Larger(key.level, value.level))]

\* _evalListExprAsync(expr, depth=depth), called by the activation at `level`;
\* what the callable returns is returned as it is
evalListExprAsync(expr, depth, level, fs) ==
    LET fName == expandAsync(JStr(Tail(expr[2][1][2])), depth + 1, level + 1, fs)
    IN IF fName.raised # None THEN fName
       ELSE LET fVal == Eval(fName.val[2])
            IN IF fVal.raised # None THEN JRaise(fVal.raised[1], fName.level)
               ELSE LET args == expandAsync(JList(Tail(expr[2])), depth + 1,
                                            level + 1, fs)
                        lvl == Larger(fName.level, args.level)
                    IN IF args.raised # None THEN JRaise(args.raised[1], lvl)
                       ELSE IF Unpack(args.val) = None THEN JRaise("call", lvl)
                       ELSE LET res == Apply(fVal.val, Unpack(args.val)[1])
                            IN IF res.raised # None
                               THEN JRaise(res.raised[1], lvl)
                               ELSE JOk(res.val, lvl)

\* _evalStrExprAsync(expr, depth=depth), called by the activation at `level`:
\* each match of REXPR is evaluated, expanded at the same depth and spliced in
\* as str; what no match covers is kept as it is
evalStrExprAsync(s, depth, level, fs) ==
    IF Search(s) = None THEN JOk(JStr(s), level)
    ELSE LET span == Search(s)[1]
             value == Eval(SubSeq(s, span[1] + 1, span[2] - 1))
         IN IF value.raised # None THEN JRaise(value.raised[1], level)
            ELSE LET r == expandAsync(value.val, depth, level + 1, fs)
                 IN IF r.raised # None THEN r
                    ELSE LET rest == evalStrExprAsync(
                                         SubSeq(s, span[2] + 1, Len(s)),
                                         depth, level, fs)
                             lvl == Larger(r.level, rest.level)
                         IN IF rest.raised # None THEN JRaise(rest.raised[1], lvl)
                            ELSE JOk(JStr(SubSeq(s, 1, span[1] - 1)
                                            \o StrOfJexpr(r.val) \o rest.val[2]),
                                     lvl)

\* What expandAsync does with expr once it is no awaitable
Dispatch(expr, depth, level, fs) ==
    IF expr[1] = "dict" THEN ExpandItems(expr[2], <<>>, depth + 1, level, fs)
    ELSE IF isListExpr(expr) THEN evalListExprAsync(expr, depth + 1, level, fs)
    ELSE IF expr[1] = "list" THEN ExpandEach(expr[2], depth + 1, level, fs)
    ELSE IF expr[1] = "str" THEN evalStrExprAsync(expr[2], depth + 1, level, fs)
    ELSE JOk(expr, level)

\* includeAsync(path), awaited by the activation at `level`: the file is read
\* and expanded from depth 0 again
includeAsync(path, level, fs) ==
    IF path \notin DOMAIN fs THEN JRaise("read", level)
    ELSE expandAsync(fs[path], 0, level + 1, fs)

\* expandAsync(expr, depth=depth) as the activation number `level` of the
\* nesting, with the files fs
expandAsync(expr, depth, level, fs) ==
    IF level > MaxNesting THEN JRaise("RecursionError", level)
    ELSE IF depth > DepthLimit THEN JRaise("Recursion limit reached", level)
    ELSE IF expr[1] = "coro"
    THEN LET awaited == includeAsync(expr[2], level, fs)
         IN IF awaited.raised # None THEN awaited
            ELSE LET r == Dispatch(awaited.val, depth, level, fs)
                 IN [r EXCEPT !.level = Larger(r.level, awaited.level)]
    ELSE Dispatch(expr, depth, level, fs)

\* Length of the strings handed to expandAsync
MaxStrLen == 4

\* The text {jexpr.include('<path>')}
IncludeRegion(path) == <<"{">> \o IncludeCall(path) \o <<"}">>

\* What the files hold: a string that includes a file, a string with a region,
\* a call form of jexpr.include
FileContents ==
    {JStr(IncludeRegion(q)) : q \in JPaths}
        \cup {JStr(<<"{", "1", "}", "2">>),
              JList(<<JStr(<<"@">> \o IncludeName), JStr(<<"g">>)>>)}

\* The file systems
FileSystems == UNION {[S -> FileContents] : S \in SUBSET JPaths}

RECURSIVE Nest(_)
\* 1 inside n lists
Nest(n) == IF n = 0 THEN JInt(<<"1">>) ELSE JList(<<Nest(n - 1)>>)

\* Strings the elements of a list are drawn from
JArgs ==
    {JStr(<<"{", "1">>), JStr(<<"}">>), JStr(<<"{", "1", "}">>), JStr(<<"1">>),
     JStr(<<"@">> \o ConcatName)}

\* Names of call forms, after the "@"
JNames == {ConcatName, FirstName, <<"{", "1", "}">>}

\* The expressions handed to expandAsync
JInputs ==
    {JStr(s) : s \in SeqsUpTo({"{", "}", "1"}, MaxStrLen)}
        \cup {JStr(IncludeRegion(q)) : q \in JPaths}
        \cup {JList(<<JStr(<<"@">> \o n), a, b>>) : n \in JNames, a \in JArgs, b \in JArgs}
        \cup {JList(<<JStr(<<"@">> \o n), a>>) : n \in JNames, a \in JArgs}
        \cup {JList(<<JStr(<<"@">> \o FirstName), JList(<<a, b>>)>>) :
                 a \in JArgs, b \in JArgs}
        \cup {JList(<<JStr(<<"@">> \o IncludeName), JStr(q)>>) : q \in JPaths}
        \cup {JList(<<a, b>>) : a \in JArgs, b \in JArgs}
        \cup {JDict(<<<<a, b>>>>) : a \in JArgs, b \in JArgs}
        \cup {JList(<<>>), JNone, Nest(DepthLimit), Nest(DepthLimit + 1)}

OnlyJexpr == UNCHANGED <<resolverVars, registryVars, externVars, cdefVars, cincVars, mainVars, parseVars, toolVars, buildVars>>

\* An expression and the files around it
NewJexpr ==
    /\ jexpr = None
    /\ expanded = None
    /\ \E fs \in FileSystems : \E e \in JInputs :
          /\ files' = fs
          /\ jexpr' = Some(e)
    /\ UNCHANGED expanded
    /\ OnlyJexpr

\* expandAsync(expr), with the default depth
ExpandJexpr ==
    /\ jexpr # None
    /\ expanded = None
    /\ expanded' = Some(expandAsync(jexpr[1], 0, 1, files))
    /\ UNCHANGED <<files, jexpr>>
    /\ OnlyJexpr

NextJexpr ==
    \/ NewJexpr
    \/ ExpandJexpr

SpecJexpr == Init /\ [][NextJexpr]_vars

RECURSIVE Balance(_, _)
\* The braces of s balance, n regions being open before it
Balance(s, n) ==
    IF s = <<>> THEN n = 0
    ELSE IF Head(s) = "{" THEN Balance(Tail(s), n + 1)
    ELSE IF Head(s) = "}" THEN n > 0 /\ Balance(Tail(s), n - 1)
    ELSE Balance(Tail(s), n)

\* C17: expanding a string whose braces do not balance (a "{" without its "}",
\* or a "}" without its "{") fails with an error instead of returning a value.
C17_UnbalancedFails ==
    (expanded # None /\ jexpr[1][1] = "str" /\ ~Balance(jexpr[1][2], 0))
        => expanded[1].raised # None

\* C18: every recursive step of an expansion increases the depth and a depth
\* over 10 is an error, so no expansion nests more activations of expandAsync
\* than the depths 0 to 11 allow.
C18_DepthBoundsNesting ==
    expanded # None => expanded[1].level <= DepthLimit + 2

\* C19: the value of a call form is what its callable returned, expanded once
\* more.
C19_ResultReExpanded ==
    (expanded # None /\ isListExpr(jexpr[1]) /\ expanded[1].raised = None)
        => LET returned == evalListExprAsync(jexpr[1], 1, 1, files)
               again == expandAsync(returned.val, 1, 2, files)
           IN again.raised = None /\ again.val = expanded[1].val

----
\* The command line (main of __init__.py, exec and Command.eval of cli.py). A
\* command is named by its path under the root command, <<>> for the root.

\* The commands registered with @cli.command that the model keeps
CmdPaths ==
    {<<>>, <<"version">>, <<"builder">>, <<"builder", "build">>, <<"jexpr">>,
     <<"jexpr", "eval">>}

\* Command.subcommands
Subcommands(p) ==
    {q \in CmdPaths : Len(q) = Len(p) + 1 /\ SubSeq(q, 1, Len(p)) = p}

\* Command.shortName, "" for None
ShortName(p) ==
    CASE p = <<"version">> -> "v"
      [] p = <<"builder">> -> "b"
      [] p = <<"builder", "build">> -> "b"
      [] OTHER -> ""

\* Command.schema is not None: the callable takes an args object
HasSchema(p) == p \in {<<>>, <<"builder", "build">>, <<"jexpr", "eval">>}

\* Words and flags of the command line
Words == {"version", "builder", "build", "jexpr", "eval", "b", "zz"}

Flags == {"--help", "--usage", "--zz"}

\* Length of the command line after the program name
MaxArgs == 3

\* An exception: its class and the phase of the run that raised it
Exc(kind, phase) == [kind |-> kind, phase |-> phase]

\* isinstance(e, RuntimeError): shell.ShellException derives from RuntimeError
IsRuntimeError(e) == e.kind \in {"RuntimeError", "ShellException"}

\* HelpRequested and UsageRequested are requests, every other exception is an
\* error of the run
IsError(e) == e.kind \notin {"HelpRequested", "UsageRequested"}

\* What the callable of a command may raise: the root command sets up plugins
\* and pods, builder/build expands and loads the manifests, resolves them,
\* generates the plan and runs the build runner, jexpr/eval expands a file;
\* an interrupt may come at any time
MayRaise(p) ==
    CASE p = <<>> ->
            {Exc("RuntimeError", "setup"), Exc("KeyboardInterrupt", "interrupt")}
      [] p = <<"builder", "build">> ->
            {Exc("ValueError", "expansion"), Exc("SyntaxError", "expansion"),
             Exc("RuntimeError", "expansion"), Exc("RuntimeError", "loading"),
             Exc("RuntimeError", "resolution"), Exc("RuntimeError", "plan"),
             Exc("ShellException", "runner"), Exc("KeyboardInterrupt", "interrupt")}
      [] p = <<"jexpr", "eval">> ->
            {Exc("ValueError", "expansion"), Exc("SyntaxError", "expansion"),
             Exc("RuntimeError", "expansion"), Exc("KeyboardInterrupt", "interrupt")}
      [] OTHER -> {}

\* Index of the first flag of args, 0 if it has none
FirstFlag(args) ==
    IF \E i \in 1..Len(args) : args[i] \in Flags
    THEN CHOOSE i \in 1..Len(args) :
             args[i] \in Flags /\ \A j \in 1..(i - 1) : args[j] \notin Flags
    ELSE 0

\* Schema.parse(args) of a command with a schema: None if it returns, else the
\* exception it raises. Operands are stored (or dropped when every operand is
\* set) unless the schema has none, --help and --usage are requests, --zz is
\* no argument of any schema
Parse(p, args) ==
    IF p = <<>> /\ \E i \in 1..Len(args) :
                      args[i] \in Words /\ (FirstFlag(args) = 0 \/ i < FirstFlag(args))
    THEN Some(Exc("ValueError", "parsing"))
    ELSE IF FirstFlag(args) = 0 THEN None
    ELSE IF args[FirstFlag(args)] = "--help" THEN Some(Exc("HelpRequested", "parsing"))
    ELSE IF args[FirstFlag(args)] = "--usage"
    THEN Some(Exc("UsageRequested", "parsing"))
    ELSE Some(Exc("ValueError", "parsing"))

\* Number of leading flags of args
RECURSIVE LeadingFlags(_)
LeadingFlags(args) ==
    IF args # <<>> /\ Head(args) \in Flags THEN 1 + LeadingFlags(Tail(args)) ELSE 0

\* The activation of Command.eval(args) for the command p, args without the
\* command name: _spliceArgs has run and self.invoke(curr) is next
Frame(p, args) ==
    IF Subcommands(p) # {}
    THEN [path |-> p, curr |-> SubSeq(args, 1, LeadingFlags(args)),
          rest |-> SubSeq(args, LeadingFlags(args) + 1, Len(args)), at |-> "invoke"]
    ELSE [path |-> p, curr |-> args, rest |-> <<>>, at |-> "invoke"]

\* The activation on top
Top == cmdStack[Len(cmdStack)]

\* The stack without the activation on top
Popped == SubSeq(cmdStack, 1, Len(cmdStack) - 1)

\* The stack with the activation on top at another place
TopAt(at) == [cmdStack EXCEPT ![Len(cmdStack)].at = at]

OnlyMain ==
    UNCHANGED <<resolverVars, registryVars, externVars, cdefVars, cincVars, jexprVars,
                parseVars, toolVars, buildVars>>

\* main() calls cli.exec(), which calls _root.eval(args)
MainExec ==
    /\ mpc = "idle"
    /\ \E argv \in SeqsUpTo(Words \cup Flags, MaxArgs) :
          cmdStack' = <<Frame(<<>>, argv)>>
    /\ mpc' = "running"
    /\ UNCHANGED <<inflight, errors, mainResult>>
    /\ OnlyMain

\* self.invoke(curr) in the try block: the schema parses curr and the callable
\* runs; a callable without schema is called without arguments
CmdInvoke ==
    /\ mpc = "running"
    /\ cmdStack # <<>>
    /\ Top.at = "invoke"
    /\ inflight = None
    /\ IF HasSchema(Top.path) /\ Parse(Top.path, Top.curr) # None
       THEN /\ inflight' = Parse(Top.path, Top.curr)
            /\ errors' = errors \cup {e \in {Parse(Top.path, Top.curr)[1]} : IsError(e)}
            /\ cmdStack' = TopAt("handler")
       ELSE \/ /\ cmdStack' = TopAt("dispatch")
               /\ UNCHANGED <<inflight, errors>>
            \/ \E e \in MayRaise(Top.path) :
                  /\ inflight' = Some(e)
                  /\ errors' = errors \cup {e}
                  /\ cmdStack' = TopAt("handler")
    /\ UNCHANGED <<mpc, mainResult>>
    /\ OnlyMain

\* Command.lookupSubcommand(name): the subcommand of that name or short name
lookupSubcommand(p, name) ==
    {q \in Subcommands(p) : q[Len(q)] = name \/ ShortName(q) = name}

\* The rest of the try block: the subcommand named by rest[0] is evaluated, or
\* the usage is printed, or the operand is unknown
CmdDispatch ==
    /\ mpc = "running"
    /\ cmdStack # <<>>
    /\ Top.at = "dispatch"
    /\ inflight = None
    /\ IF Subcommands(Top.path) # {}
       THEN IF Top.rest # <<>>
            THEN IF lookupSubcommand(Top.path, Top.rest[1]) # {}
                 THEN /\ cmdStack' =
                            Append(TopAt("waiting"),
                                   Frame(CHOOSE q \in lookupSubcommand(Top.path, Top.rest[1]) :
                                             \/ q[Len(q)] = Top.rest[1]
                                             \/ \A r \in lookupSubcommand(Top.path, Top.rest[1]) :
                                                   r[Len(r)] # Top.rest[1],
                                         Tail(Top.rest)))
                      /\ UNCHANGED <<inflight, errors>>
                 ELSE /\ inflight' = Some(Exc("ValueError", "parsing"))
                      /\ errors' = errors \cup {Exc("ValueError", "parsing")}
                      /\ cmdStack' = TopAt("handler")
            ELSE /\ cmdStack' = Popped
                 /\ UNCHANGED <<inflight, errors>>
       ELSE IF Top.rest # <<>>
            THEN /\ inflight' = Some(Exc("ValueError", "parsing"))
                 /\ errors' = errors \cup {Exc("ValueError", "parsing")}
                 /\ cmdStack' = TopAt("handler")
            ELSE /\ cmdStack' = Popped
                 /\ UNCHANGED <<inflight, errors>>
    /\ UNCHANGED <<mpc, mainResult>>
    /\ OnlyMain

\* The subcommand's eval returned: the try block is over, eval returns
CmdReturn ==
    /\ mpc = "running"
    /\ cmdStack # <<>>
    /\ Top.at = "waiting"
    /\ inflight = None
    /\ cmdStack' = Popped
    /\ UNCHANGED <<mpc, inflight, errors, mainResult>>
    /\ OnlyMain

\* The except clauses of Command.eval, with an exception raised in the try
\* block or by the subcommand's eval: HelpRequested and UsageRequested print
\* the help or the usage (the root command invokes itself again before, which
\* may raise), ValueError prints the error and the usage, and eval returns;
\* any other exception leaves eval
CmdHandle ==
    /\ mpc = "running"
    /\ cmdStack # <<>>
    /\ Top.at \in {"handler", "waiting"}
    /\ inflight # None
    /\ cmdStack' = Popped
    /\ IF inflight[1].kind \in {"HelpRequested", "UsageRequested"}
       THEN \/ /\ inflight' = None
               /\ UNCHANGED errors
            \/ /\ Top.path = <<>>
               /\ \E e \in MayRaise(<<>>) :
                     /\ inflight' = Some(e)
                     /\ errors' = errors \cup {e}
       ELSE IF inflight[1].kind = "ValueError"
       THEN /\ inflight' = None
            /\ UNCHANGED errors
       ELSE UNCHANGED <<inflight, errors>>
    /\ UNCHANGED <<mpc, mainResult>>
    /\ OnlyMain

\* cli.exec() is over: main returns 0 if it returned, 1 on a RuntimeError and
\* on a KeyboardInterrupt; any other exception leaves main
MainReturn ==
    /\ mpc = "running"
    /\ cmdStack = <<>>
    /\ mainResult' =
          IF inflight = None THEN <<"return", 0>>
          ELSE IF IsRuntimeError(inflight[1]) THEN <<"return", 1>>
          ELSE IF inflight[1].kind = "KeyboardInterrupt" THEN <<"return", 1>>
          ELSE <<"raise", inflight[1].kind>>
    /\ mpc' = "exited"
    /\ UNCHANGED <<cmdStack, inflight, errors>>
    /\ OnlyMain

NextMain ==
    \/ MainExec
    \/ CmdInvoke
    \/ CmdDispatch
    \/ CmdReturn
    \/ CmdHandle
    \/ MainReturn

SpecMain == Init /\ [][NextMain]_vars

\* C20: main returns 0 only when no error was raised in the run, and returns 1
\* when one was: in command parsing, in manifest expansion and loading, in
\* resolution, in plan generation, in the build runner, or by an interrupt.
C20_ExitCode ==
    mpc = "exited" =>
        /\ mainResult = <<"return", 0>> => errors = {}
        /\ errors # {} => mainResult = <<"return", 1>>

----
\* cli.parseValue: the value of a command-line argument. A str is a sequence
\* of characters; a value is <<"int", n>>, <<"bool", b>>, <<"str", s>> or
\* <<"list", values>>. The strings have no quote, so the two _parseString
\* branches of _parsePrimitive are not taken.

\* The decimal digits
Digits == {"0", "1", "2"}

\* The digit c as a number
DigitValue(c) == CASE c = "0" -> 0 [] c = "1" -> 1 [] c = "2" -> 2

RECURSIVE DecimalValue(_)
\* The number a sequence of digits writes
DecimalValue(ds) ==
    IF ds = <<>> THEN 0
    ELSE 10 * DecimalValue(SubSeq(ds, 1, Len(ds) - 1)) + DigitValue(ds[Len(ds)])

\* int(ident) accepts ident: an optional sign and at least one digit
IsIntText(ident) ==
    LET ds == IF ident # <<>> /\ ident[1] \in {"+", "-"} THEN Tail(ident) ELSE ident
    IN ds # <<>> /\ \A i \in 1..Len(ds) : ds[i] \in Digits

\* int(ident), for a text it accepts
IntOf(ident) ==
    IF ident[1] = "-" THEN 0 - DecimalValue(Tail(ident))
    ELSE IF ident[1] = "+" THEN DecimalValue(Tail(ident))
    ELSE DecimalValue(ident)

\* _tryParseInt(ident): int(ident), None on ValueError
tryParseInt(ident) == IF IsIntText(ident) THEN Some(IntOf(ident)) ELSE None

\* Number of characters _parseUntilComma reads: up to the first comma
UntilComma(s) ==
    IF \E i \in 1..Len(s) : s[i] = ","
    THEN (CHOOSE i \in 1..Len(s) : s[i] = "," /\ \A j \in 1..(i - 1) : s[j] # ",") - 1
    ELSE Len(s)

\* The value _parsePrimitive gives an identifier: `elif n := _tryParseInt(ident)`
\* takes the integer only if it is true
PrimitiveOf(ident) ==
    IF ident \in {<<"y">>} THEN <<"bool", TRUE>>
    ELSE IF tryParseInt(ident) # None /\ tryParseInt(ident)[1] # 0
    THEN <<"int", tryParseInt(ident)[1]>>
    ELSE <<"str", ident>>

RECURSIVE ParseMore(_)
\* The loop of _parseValue: the primitives after each comma
ParseMore(s) ==
    IF s = <<>> \/ Head(s) # "," THEN <<>>
    ELSE LET t == Tail(s)
         IN <<PrimitiveOf(SubSeq(t, 1, UntilComma(t)))>>
               \o ParseMore(SubSeq(t, UntilComma(t) + 1, Len(t)))

\* parseValue(s): a primitive, or the list of the primitives between commas
parseValue(s) ==
    LET lhs == PrimitiveOf(SubSeq(s, 1, UntilComma(s)))
        rest == SubSeq(s, UntilComma(s) + 1, Len(s))
    IN IF rest = <<>> THEN lhs ELSE <<"list", <<lhs>> \o ParseMore(rest)>>

\* Length of the strings handed to parseValue
MaxValueLen == 3

OnlyParse ==
    UNCHANGED <<resolverVars, registryVars, externVars, cdefVars, cincVars, jexprVars,
                mainVars, toolVars, buildVars>>

\* A string of the command line
NewArgText ==
    /\ argText = None
    /\ parsed = None
    /\ \E s \in SeqsUpTo(Digits \cup {"+", "-", ",", "y"}, MaxValueLen) :
          argText' = Some(s)
    /\ UNCHANGED parsed
    /\ OnlyParse

\* cli.parseValue(s)
ParseArgText ==
    /\ argText # None
    /\ parsed = None
    /\ parsed' = Some(parseValue(argText[1]))
    /\ UNCHANGED argText
    /\ OnlyParse

NextParse ==
    \/ NewArgText
    \/ ParseArgText

SpecParse == Init /\ [][NextParse]_vars

\* C21: parseValue of the decimal text of an integer, with an optional sign,
\* is that integer, as an int.
C21_ParsesInt ==
    (parsed # None /\ IsIntText(argText[1]))
        => parsed[1] = <<"int", IntOf(argText[1])>>

----
\* Injection (model.py 982-998), stated of the load of one target

\* The victim the inject at (i, j) names, by id or by provides; 0 for none
VictimOf(i, j) == LookupProvides(reg, reg[i].injects[j])

\* One iteration of the inject loop, stated of the victim's entry: c.id is
\* appended to its injected, and its required becomes c.required followed by
\* its own required, first occurrences kept
InjectedInto(c, v) ==
    /\ heap'[resolved[v]].injected = Append(Res(v).injected, c)
    /\ heap'[resolved[v]].required =
          uniqPreserveOrder(Res(c).required \o Res(v).required)

\* The loops visit (component, inject) positions in registry order
Advances == pc' = "inject" => (idx' > idx \/ (idx' = idx /\ jdx' > jdx))

\* C22: injection runs only after every component has been resolved for the
\* target and visits injectors in registry insertion order; for each enabled
\* component C and each entry of C.injects that names a victim V by id or
\* provides, C.id is appended to V.resolved[T].injected and V.resolved[T].required
\* becomes C.required followed by V.required with first occurrences kept;
\* components that are not enabled inject nothing.
C22_InjectAfterResolve ==
    /\ [](pc = "inject" => \A i \in 1..Len(reg) : Loaded(i))
    /\ [][pc = "inject" =>
            /\ Enabled(Res(reg[idx].id))
            /\ Advances
            /\ IF VictimOf(idx, jdx) = 0 THEN heap' = heap
               ELSE InjectedInto(reg[idx].id, reg[VictimOf(idx, jdx)].id)]_vars
    /\ [](pc = "done" =>
            /\ \A i \in 1..Len(reg) : \A j \in 1..Len(reg[i].injects) :
                  (Enabled(Res(reg[i].id)) /\ VictimOf(i, j) # 0) =>
                      InList(reg[i].id, Res(reg[VictimOf(i, j)].id).injected)
            /\ \A h \in 1..Len(heap) : \A n \in 1..Len(heap[h].injected) :
                  Enabled(Res(heap[h].injected[n])))

\* The case of C22: the load ended; an enabled component injected into another
\* component, whose required list grew, and a disabled component that names a
\* victim injected nothing
C22_Witness ==
    /\ pc = "done"
    /\ \E i \in 1..Len(reg) : \E j \in 1..Len(reg[i].injects) :
          /\ Enabled(Res(reg[i].id))
          /\ VictimOf(i, j) # 0
          /\ VictimOf(i, j) # i
          /\ Len(Res(reg[VictimOf(i, j)].id).required) >= 2
    /\ \E i \in 1..Len(reg) :
          /\ ~Enabled(Res(reg[i].id))
          /\ reg[i].injects # <<>>
          /\ VictimOf(i, 1) # 0

\* x reaches y along requires edges, under the selected providers (a path
\* between two of the three components has at most two edges)
Reaches(x, y) ==
    \/ DependsOn(x, y)
    \/ \E i \in 1..Len(reg) : DependsOn(x, reg[i].id) /\ DependsOn(reg[i].id, y)

\* C23: injection never forms a cycle with the explicit requires graph: a
\* registry in which an enabled injector requires, directly or transitively,
\* the component it injects into is rejected with a dependency-loop error, so
\* its load never ends normally.
C23_InjectCycleRejected ==
    pc = "done" =>
        \A i \in 1..Len(reg) : \A j \in 1..Len(reg[i].injects) :
            (Enabled(Res(reg[i].id)) /\ VictimOf(i, j) # 0 /\ VictimOf(i, j) # i)
                => ~Reaches(reg[i].id, reg[VictimOf(i, j)].id)

\* Component i is enabled and one of its injects names component v
InjectsInto(i, v) ==
    /\ Enabled(Res(reg[i].id))
    /\ \E j \in 1..Len(reg[i].injects) : VictimOf(i, j) = v

\* C24: injection is transitive: if C2 injects into C1 and C1 injects into V,
\* all enabled for the target, then after load V's required list contains every
\* element of C2's required list, whatever the order in which C1 and C2 were
\* inserted in the registry.
C24_InjectTransitive ==
    pc = "done" =>
        \A c2, c1, v \in 1..Len(reg) :
            (/\ c2 # c1 /\ c1 # v /\ c2 # v
             /\ InjectsInto(c2, c1) /\ InjectsInto(c1, v)
             /\ Enabled(Res(reg[v].id)))
                => \A n \in 1..Len(Res(reg[c2].id).required) :
                      InList(Res(reg[c2].id).required[n], Res(reg[v].id).required)

\* C29: each component owns its own Resolved entry for the target: no two
\* distinct components share one Resolved object, so an injection into a victim
\* V changes only V.resolved[T] and leaves the entry of every other component
\* unchanged.
C29_OwnResolved ==
    /\ [](\A i, k \in 1..Len(reg) :
            (i # k /\ Loaded(i) /\ Loaded(k)) =>
                resolved[reg[i].id] # resolved[reg[k].id])
    /\ [][(pc = "inject" /\ VictimOf(idx, jdx) # 0) =>
            \A i \in 1..Len(reg) :
                i # VictimOf(idx, jdx) =>
                    heap'[resolved[reg[i].id]] = Res(reg[i].id)]_vars

----
\* The default argument of Resolver.resolve across tests: `stack: list[str] = []`
\* (model.py 719) is one list object for the whole process, shared by every
\* top-level call of every Resolver

\* Registry._append(Component(id, requires=[...])) of the next component
AppendRequiring ==
    /\ UNCHANGED otherVars
    /\ pc = "config"
    /\ Len(reg) < Len(Ids)
    /\ \E req \in SeqsUpTo(IdSet, Budget) :
          reg' = Append(reg, Component(Ids[Len(reg) + 1], req, <<>>, <<>>, <<>>))
    /\ UNCHANGED <<props, routing, pc, idx, jdx, mappings, cache, heap, stack,
                   resolved, call, ncalls>>

\* Target("host") with no props and no routing
PlainTarget ==
    /\ UNCHANGED otherVars
    /\ pc = "config"
    /\ pc' = "ready"
    /\ UNCHANGED <<reg, props, routing, idx, jdx, mappings, cache, heap, stack,
                   resolved, call, ncalls>>

\* A test returns or fails and the next one builds its own registry, target
\* and Resolver; the list bound to the default argument stays as it was left
NextRegistry ==
    /\ UNCHANGED otherVars
    /\ pc = "direct"
    /\ reg' = <<>>
    /\ props' = EmptyMap
    /\ routing' = EmptyMap
    /\ pc' = "config"
    /\ mappings' = None
    /\ cache' = EmptyMap
    /\ heap' = <<>>
    /\ resolved' = EmptyMap
    /\ call' = NoCall
    /\ ncalls' = 0
    /\ UNCHANGED <<idx, jdx, stack>>

NextStack ==
    \/ AppendRequiring
    \/ PlainTarget
    \/ NewResolver
    \/ ResolveCall
    \/ NextRegistry

SpecStack == Init /\ [][NextStack]_vars

\* C30: the resolution stack carries no state between top-level resolve calls:
\* after any sequence of calls, on the same Resolver or on Resolvers of other
\* registries, including calls that ended in a dependency-loop error, a resolve
\* raises a dependency-loop error only if the requires graph of its own
\* registry contains a cycle reachable from the provider of the resolved spec.
C30_LoopOnlyIfCycle ==
    (Made /\ call.raised # None) =>
        LET pr == Provider(mappings, reg, props, call.what)
        IN pr[1] # None /\ CycleFrom(pr[1][1])

----
\* Tool composition: Registry._loadDependencies 1000-1018 and mixins.py.
\* A Tool holds its args and files as references to list objects.

OnlyTools ==
    UNCHANGED <<resolverVars, registryVars, externVars, cdefVars, cincVars, jexprVars,
                mainVars, parseVars, buildVars>>

\* Number of targets of the registry.
MaxTargets == 2

\* Number of components that carry tools.
MaxToolComps == 2

\* The Tool objects of a table with their lists read: what an observer of the
\* table sees
View(l, tools) ==
    [k \in DOMAIN tools |->
        [cmd |-> tools[k].cmd, args |-> l[tools[k].args],
         files |-> l[tools[k].files], rule |-> tools[k].rule]]

RECURSIVE MakeTools(_, _, _)
\* A tool table read from a manifest: one Tool per (name, args) pair, each with
\* its own args list and files list, created in the store l
MakeTools(l, pairs, table) ==
    IF pairs = <<>> THEN [lists |-> l, tools |-> table]
    ELSE MakeTools(l \o <<pairs[1][2], <<>>>>, Tail(pairs),
                   (pairs[1][1] :> [cmd |-> pairs[1][1], args |-> Len(l) + 1,
                                    files |-> Len(l) + 2, rule |-> None]) @@ table)

\* The tool tables a target manifest declares
DeclaredTools ==
    {<<>>,
     <<<<"cc", <<>>>>, <<"cxx", <<>>>>>>,
     <<<<"cc", <<"-t">>>>, <<"cxx", <<>>>>>>,
     <<<<"cc", <<>>>>, <<"cxx", <<>>>>, <<"cp", <<"-t">>>>>>}

\* The tool names a component manifest gives args for, in the order of its dict
ComponentTools == {<<>>, <<"cc">>, <<"cp">>, <<"cp", "cc">>}

\* The mixins lists of a load
MixinLists == {<<>>, <<"cache">>, <<"debug">>, <<"debug", "o1">>, <<"o1", "debug">>}

\* Registry._append(Target(id, tools=...))
NewToolTarget ==
    /\ OnlyTools
    /\ tpc = "config"
    /\ tcomps = <<>>
    /\ Len(targets) < MaxTargets
    /\ \E d \in DeclaredTools :
          LET r == MakeTools(lists, d, EmptyMap)
          IN /\ lists' = r.lists
             /\ targets' = Append(targets, r.tools)
             /\ declared' = Append(declared, View(r.lists, r.tools))
    /\ UNCHANGED <<DEFAULT_TOOLS, tcomps, loadMixins, tpc, tidx>>

\* Registry._append(Component(id, tools=...)); `enabled` is the set of targets
\* the resolver enables it for. The component with id x gives the arg "-x".
NewToolComponent ==
    /\ OnlyTools
    /\ tpc = "config"
    /\ targets # <<>>
    /\ Len(tcomps) < MaxToolComps
    /\ \E en \in SUBSET (1..Len(targets)) : \E names \in ComponentTools :
          tcomps' = Append(tcomps,
              [enabled |-> en,
               tools |-> [i \in 1..Len(names) |->
                             <<names[i], <<"-" \o Ids[Len(tcomps) + 1]>>>>]])
    /\ UNCHANGED <<lists, DEFAULT_TOOLS, targets, declared, loadMixins, tpc, tidx>>

\* Registry._loadDependencies(r, mixins, props) is called
BeginTools ==
    /\ OnlyTools
    /\ tpc = "config"
    /\ targets # <<>>
    /\ \E m \in MixinLists : loadMixins' = m
    /\ tpc' = "load"
    /\ tidx' = 1
    /\ UNCHANGED <<lists, DEFAULT_TOOLS, targets, declared, tcomps>>

\* st: [lists, tools, raised], the store, the table `tools` and the exception

\* mixins.patchToolArgs and line 1018, `tools[k].args += args`: the list object
\* is extended in place; KeyError when the table has no tool k
patchToolArgs(st, k, args) ==
    IF k \notin DOMAIN st.tools THEN [st EXCEPT !.raised = Some("KeyError")]
    ELSE [st EXCEPT !.lists[st.tools[k].args] = @ \o args]

\* mixins.prefixToolCmd
prefixToolCmd(st, k, prefix) ==
    IF k \notin DOMAIN st.tools THEN [st EXCEPT !.raised = Some("KeyError")]
    ELSE [st EXCEPT !.tools[k].cmd = prefix \o " " \o @]

\* A mixin that patches cc, then cxx
PatchBoth(st, args) ==
    LET a == patchToolArgs(st, "cc", args)
    IN IF a.raised # None THEN a ELSE patchToolArgs(a, "cxx", args)

mixinCache(st) ==
    LET a == prefixToolCmd(st, "cc", "ccache")
    IN IF a.raised # None THEN a ELSE prefixToolCmd(a, "cxx", "ccache")

mixinDebug(st) == PatchBoth(st, <<"-g", "-gdwarf-4">>)

mixinOptimize(st, level) == PatchBoth(st, <<"-O" \o level>>)

\* mixins.byId(id)(target, tools)
byId(id, st) ==
    CASE id = "cache" -> mixinCache(st)
      [] id = "debug" -> mixinDebug(st)
      [] id = "o1" -> mixinOptimize(st, "1")

RECURSIVE ApplyMixins(_, _)
\* Lines 1010-1012
ApplyMixins(st, mixins) ==
    IF mixins = <<>> \/ st.raised # None THEN st
    ELSE ApplyMixins(byId(mixins[1], st), Tail(mixins))

RECURSIVE ApplyTools(_, _)
\* Lines 1017-1018, for one component
ApplyTools(st, pairs) ==
    IF pairs = <<>> \/ st.raised # None THEN st
    ELSE ApplyTools(patchToolArgs(st, pairs[1][1], pairs[1][2]), Tail(pairs))

RECURSIVE ApplyComponents(_, _, _)
\* Lines 1015-1018
ApplyComponents(st, comps, t) ==
    IF comps = <<>> \/ st.raised # None THEN st
    ELSE ApplyComponents(IF t \in comps[1].enabled THEN ApplyTools(st, comps[1].tools)
                         ELSE st,
                         Tail(comps), t)

\* Lines 1004-1006: dt.replace(v) makes a new Tool with the field values of v,
\* so the new Tool refers to the list objects of v
MergeDefaults(tools) ==
    [k \in DOMAIN tools \cup DOMAIN DEFAULT_TOOLS |->
        IF k \in DOMAIN tools THEN tools[k] ELSE DEFAULT_TOOLS[k]]

\* Lines 1000-1018 for the target the loop is at
LoadTools ==
    /\ OnlyTools
    /\ tpc = "load"
    /\ LET st == ApplyComponents(
                    ApplyMixins([lists |-> lists, tools |-> MergeDefaults(targets[tidx]),
                                 raised |-> None], loadMixins),
                    tcomps, tidx)
       IN /\ lists' = st.lists
          /\ targets' = [targets EXCEPT ![tidx] = st.tools]
          /\ tpc' = IF st.raised # None THEN "raised"
                    ELSE IF tidx < Len(targets) THEN "load" ELSE "done"
          /\ tidx' = IF st.raised = None /\ tidx < Len(targets) THEN tidx + 1 ELSE tidx
    /\ UNCHANGED <<DEFAULT_TOOLS, declared, tcomps, loadMixins>>

NextTools ==
    \/ NewToolTarget
    \/ NewToolComponent
    \/ BeginTools
    \/ LoadTools

SpecTools == Init /\ [][NextTools]_vars

\* What target t shows of its tool table
ToolView(t) == View(lists, targets[t])

\* model.DEFAULT_TOOLS as the module defines it: {"cp": Tool("cp")}
PristineDefaults == ("cp" :> [cmd |-> "cp", args |-> <<>>, files |-> <<>>, rule |-> None])

\* The tool k of target t before composition: the declared one, else the default
BaseTool(t, k) ==
    IF k \in DOMAIN declared[t] THEN declared[t][k] ELSE PristineDefaults[k]

\* The args a mixin adds to tool k, and whether it prefixes its cmd
MixinArgs(id, k) ==
    IF k \notin {"cc", "cxx"} THEN <<>>
    ELSE IF id = "debug" THEN <<"-g", "-gdwarf-4">>
    ELSE IF id = "o1" THEN <<"-O1">>
    ELSE <<>>

RECURSIVE AllMixinArgs(_, _)
AllMixinArgs(mixins, k) ==
    IF mixins = <<>> THEN <<>>
    ELSE MixinArgs(mixins[1], k) \o AllMixinArgs(Tail(mixins), k)

RECURSIVE PrefixedCmd(_, _, _)
PrefixedCmd(mixins, k, cmd) ==
    IF mixins = <<>> THEN cmd
    ELSE PrefixedCmd(Tail(mixins), k,
                     IF mixins[1] = "cache" /\ k \in {"cc", "cxx"}
                     THEN "ccache " \o cmd ELSE cmd)

RECURSIVE PairArgs(_, _)
\* The args a component's tools give for tool k
PairArgs(pairs, k) ==
    IF pairs = <<>> THEN <<>>
    ELSE (IF pairs[1][1] = k THEN pairs[1][2] ELSE <<>>) \o PairArgs(Tail(pairs), k)

RECURSIVE ComponentArgs(_, _, _)
\* The args the components enabled for t give for tool k, in registry order
ComponentArgs(comps, t, k) ==
    IF comps = <<>> THEN <<>>
    ELSE (IF t \in comps[1].enabled THEN PairArgs(comps[1].tools, k) ELSE <<>>)
         \o ComponentArgs(Tail(comps), t, k)

\* C25: tool composition for a target is additive in a fixed order: starting
\* from the target-declared tools plus the default tools it lacks, mixins are
\* applied in the order of the mixin list, then each component enabled for the
\* target appends its per-tool args in registry insertion order; a component
\* never changes a tool's cmd or rule, and a component disabled for the target
\* contributes no args.
C25_ToolsAdditive ==
    tpc = "done" =>
        \A t \in 1..Len(targets) :
            /\ DOMAIN targets[t] = DOMAIN declared[t] \cup DOMAIN PristineDefaults
            /\ \A k \in DOMAIN targets[t] :
                  /\ ToolView(t)[k].cmd = PrefixedCmd(loadMixins, k, BaseTool(t, k).cmd)
                  /\ ToolView(t)[k].rule = BaseTool(t, k).rule
                  /\ ToolView(t)[k].args =
                        BaseTool(t, k).args \o AllMixinArgs(loadMixins, k)
                            \o ComponentArgs(tcomps, t, k)

\* C26: targets share no mutable state during load: composing tools for one
\* target leaves the tool table (cmd, args, files, rule of every tool,
\* including defaulted tools such as cp) of every other target and the
\* process-wide default tool table unchanged.
C26_TargetsIsolated ==
    [][tpc = "load" =>
            /\ View(lists', DEFAULT_TOOLS') = View(lists, DEFAULT_TOOLS)
            /\ \A t \in 1..Len(targets) :
                  t # tidx => View(lists', targets'[t]) = ToolView(t)]_vars

----
\* builder.build: the plan written to <builddir>/build.ninja, then the runner

OnlyBuild ==
    UNCHANGED <<resolverVars, registryVars, externVars, cdefVars, cincVars, jexprVars,
                mainVars, parseVars, toolVars>>

\* Number of components of the registry the builder sees.
MaxBuildComps == 2

\* ComponentScope.buildpath(path): <builddir>/<component id>/<path>
buildpath(c, path) == "bd/" \o c.id \o "/" \o path

outfile(c) ==
    IF c.type = "lib" THEN buildpath(c, "__lib__/" \o c.id \o ".a")
    ELSE buildpath(c, "__bin__/" \o c.id \o ".out")

\* w.build(out, rule, inputs, implicit=..., variables={"objs": ..., "libs": ...})
Edge(out, rule, inputs, implicit, objs, libs) ==
    [out |-> out, rule |-> rule, inputs |-> inputs, implicit |-> implicit,
     objs |-> objs, libs |-> libs]

\* The component of the registry with the given id
ById(comps, id) == comps[CHOOSE i \in 1..Len(comps) : comps[i].id = id]

\* compileObjs(w, scope): the object files of c, one per source; the sources
\* of the model are C files, and dirname is the component's id
compileObjs(c) == [i \in 1..Len(c.srcs) |-> buildpath(c, "__obj__/" \o c.srcs[i] \o ".o")]

\* The edges compileObjs writes when it is given a writer
CompileEdges(c) ==
    [i \in 1..Len(c.srcs) |->
        Edge(compileObjs(c)[i], "cc", <<c.id \o "/" \o c.srcs[i]>>, <<>>, <<>>, <<>>)]

\* compileRes(w, scope): the copies of the files under res
compileRes(c) == [i \in 1..Len(c.res) |-> buildpath(c, "__res__/" \o c.res[i])]

ResEdges(c) ==
    [i \in 1..Len(c.res) |->
        Edge(compileRes(c)[i], "cp", <<c.id \o "/res/" \o c.res[i]>>, <<>>, <<>>, <<>>)]

\* What a step of the builder gives: a value, or the RuntimeError it raises
BOk(v) == [raised |-> None, val |-> v]

BRaise(msg) == [raised |-> Some(msg), val |-> <<>>]

NotLibrary(r) == "Component " \o r \o " is not a library"

RECURSIVE CollectLibsFrom(_, _, _, _)
\* The loop of collectLibs over the rest of the required list
CollectLibsFrom(comps, c, rest, res) ==
    IF rest = <<>> THEN BOk(res)
    ELSE IF rest[1] = c.id THEN CollectLibsFrom(comps, c, Tail(rest), res)
    ELSE IF ById(comps, rest[1]).type # "lib" THEN BRaise(NotLibrary(rest[1]))
    ELSE CollectLibsFrom(comps, c, Tail(rest),
                         Append(res, outfile(ById(comps, rest[1]))))

collectLibs(comps, c) == CollectLibsFrom(comps, c, c.required, <<>>)

RECURSIVE CollectInjectedFrom(_, _, _, _)
\* The loop of collectInjectedObjs over the rest of the injected list
CollectInjectedFrom(comps, c, rest, res) ==
    IF rest = <<>> THEN BOk(res)
    ELSE IF rest[1] = c.id THEN CollectInjectedFrom(comps, c, Tail(rest), res)
    ELSE IF ById(comps, rest[1]).type # "lib" THEN BRaise(NotLibrary(rest[1]))
    ELSE CollectInjectedFrom(comps, c, Tail(rest),
                             res \o compileObjs(ById(comps, rest[1])))

collectInjectedObjs(comps, c) == CollectInjectedFrom(comps, c, c.injected, <<>>)

\* link(w, scope): the edges it writes, in order, and the exception it raises.
\* The edges of compileRes and compileObjs are written before the lists of an
\* executable are collected.
link(comps, c) ==
    LET written == ResEdges(c) \o CompileEdges(c)
        objs == compileObjs(c)
        injectedObjs == collectInjectedObjs(comps, c)
        libs == collectLibs(comps, c)
    IN IF c.type = "lib"
       THEN [edges |-> Append(written, Edge(outfile(c), "ar", objs, compileRes(c), <<>>, <<>>)),
             raised |-> None]
       ELSE IF injectedObjs.raised # None
       THEN [edges |-> written, raised |-> injectedObjs.raised]
       ELSE IF libs.raised # None
       THEN [edges |-> written, raised |-> libs.raised]
       ELSE [edges |-> Append(written,
                        Edge(outfile(c), "ld", objs \o libs.val, compileRes(c),
                             objs \o injectedObjs.val, libs.val)),
             raised |-> None]

\* The Resolved entries a load leaves: disabled, or enabled with a required
\* list of distinct ids and an injected list
BuildIds == {Ids[i] : i \in 1..MaxBuildComps}

ResolvedEntries ==
    {[enabled |-> FALSE, required |-> <<>>, injected |-> <<>>]}
    \cup {[enabled |-> TRUE, required |-> r, injected |-> j] :
            r \in {s \in SeqsUpTo(BuildIds, 2) : s # <<>> /\ NoDuplicates(s)},
            j \in SeqsUpTo(BuildIds, 1)}

\* The component with the i-th id
BuildComponents(i) ==
    {[id |-> Ids[i], type |-> t, srcs |-> s, res |-> rs,
      enabled |-> e.enabled, required |-> e.required, injected |-> e.injected] :
        t \in {"exe", "lib"}, s \in {<<>>, <<"m.c">>}, rs \in {<<>>, <<"r">>},
        e \in ResolvedEntries}

\* The build.ninja a previous build left
OldFile == [edges |-> <<>>, version |-> "old", complete |-> TRUE]

RECURSIVE NextEnabled(_, _)
\* Registry.iterEnabled: the next enabled component from position i on, 0 if none
NextEnabled(comps, i) ==
    IF i > Len(comps) THEN 0
    ELSE IF comps[i].enabled THEN i
    ELSE NextEnabled(comps, i + 1)

\* The elements of a list
Range(s) == {s[i] : i \in 1..Len(s)}

\* A loaded registry, the state of the build directory and a call of build;
\* the lists of an enabled component name enabled components of the registry
NewBuild ==
    /\ OnlyBuild
    /\ bpc = "idle"
    /\ \E n \in 1..MaxBuildComps :
       \E cs \in [1..n -> UNION {BuildComponents(i) : i \in 1..MaxBuildComps}] :
       \E rq \in 0..n :
       \E old \in {None, Some(OldFile)} :
          /\ \A i \in 1..n :
                /\ cs[i].id = Ids[i]
                /\ Range(cs[i].required) \cup Range(cs[i].injected)
                      \subseteq {Ids[k] : k \in {j \in 1..n : cs[j].enabled}}
          /\ bcomps' = cs
          /\ requested' = rq
          /\ ninja' = old
    /\ bpc' = "open"
    /\ UNCHANGED <<runner, bidx>>

\* Lines 419-422 and gen up to the "Build" separator: open(ninjaPath, "w")
\* truncates the file, then the variables and the tool rules are written
BuildOpen ==
    /\ OnlyBuild
    /\ bpc = "open"
    /\ ninja' = Some([edges |-> <<>>, version |-> "new", complete |-> FALSE])
    /\ bidx' = NextEnabled(bcomps, 1)
    /\ bpc' = "gen"
    /\ UNCHANGED <<bcomps, requested, runner>>

\* One iteration of the loop of builder.all: link(w, scope) of an enabled
\* component. An exception leaves the `with` block, which closes the file.
GenLink ==
    /\ OnlyBuild
    /\ bpc = "gen"
    /\ bidx # 0
    /\ LET l == link(bcomps, bcomps[bidx])
       IN /\ ninja' = [ninja EXCEPT ![1].edges = @ \o l.edges]
          /\ bpc' = IF l.raised # None THEN "raised" ELSE "gen"
          /\ bidx' = IF l.raised # None THEN bidx ELSE NextEnabled(bcomps, bidx + 1)
    /\ UNCHANGED <<bcomps, requested, runner>>

\* The end of builder.all and of the `with` block: the phony edge "all", the
\* default statement, and the file is closed
GenEnd ==
    /\ OnlyBuild
    /\ bpc = "gen"
    /\ bidx = 0
    /\ ninja' = [ninja EXCEPT
                    ![1].edges = Append(@, Edge("all", "phony",
                        [i \in 1..Len(SelectSeq(bcomps, LAMBDA c : c.enabled)) |->
                            outfile(SelectSeq(bcomps, LAMBDA c : c.enabled)[i])],
                        <<>>, <<>>, <<>>)),
                    ![1].complete = TRUE]
    /\ bpc' = "products"
    /\ UNCHANGED <<bcomps, requested, runner, bidx>>

\* Lines 424-455: the products of the requested components, then the runner is
\* spawned on the file; a requested component that is disabled raises
BuildRun ==
    /\ OnlyBuild
    /\ bpc = "products"
    /\ IF requested # 0 /\ ~bcomps[requested].enabled
       THEN /\ bpc' = "raised"
            /\ UNCHANGED runner
       ELSE /\ bpc' = "run"
            /\ runner' = Some([file |-> ninja[1],
                          outs |-> IF requested = 0 THEN <<>>
                                   ELSE <<outfile(bcomps[requested])>>])
    /\ UNCHANGED <<bcomps, requested, ninja, bidx>>

NextBuild ==
    \/ NewBuild
    \/ BuildOpen
    \/ GenLink
    \/ GenEnd
    \/ BuildRun

SpecBuild == Init /\ [][NextBuild]_vars

\* C27: for every enabled Exe, the emitted ld build edge collects its own
\* objects, the outfile of every Lib in its required list except itself, and
\* the compiled objects of every component in its injected list; every file
\* passed to the link command ($objs and $libs) is a declared explicit or
\* implicit input of that edge.
C27_LinkInputsDeclared ==
    (ninja # None /\ ninja[1].complete /\ ninja[1].version = "new") =>
        \A c \in {x \in Range(bcomps) : x.enabled /\ x.type = "exe"} :
            \E n \in 1..Len(ninja[1].edges) :
                LET e == ninja[1].edges[n]
                IN /\ e.out = outfile(c)
                   /\ e.rule = "ld"
                   /\ e.objs = compileObjs(c) \o collectInjectedObjs(bcomps, c).val
                   /\ e.libs = collectLibs(bcomps, c).val
                   /\ Range(e.objs) \cup Range(e.libs)
                         \subseteq Range(e.inputs) \cup Range(e.implicit)

\* C28: the build file is written atomically and before the runner starts: at
\* every moment build.ninja is absent, the complete previous file or the
\* complete new file, so a failure during plan generation never leaves a
\* partial file; the runner is spawned only after the complete file is in place.
C28_AtomicBuildFile ==
    /\ ninja # None => ninja[1].complete
    /\ runner # None => (runner[1].file.complete /\ runner[1].file.version = "new")

====
